---- MODULE Spec2Model ----
(***************************************************************************)
(* Verification model of the reflexive Kubernetes remediation agent.       *)
(*                                                                         *)
(* The safe executor (real_kubectl_executor.py) comes first, then the      *)
(* orchestration graph of ReflexiveK8sWorkflow                             *)
(* (k8s-real-integration/src/workflow.py) driven by its two entry points.  *)
(*                                                                         *)
(* Real numbers of the code are kept exact as scaled integers:             *)
(* self_awareness_level is held in units of 1/6000, scores in tenths.      *)
(***************************************************************************)
EXTENDS Integers, Sequences, FiniteSets, TLC

(***************************************************************************)
(* Bounds of the model (not program constants).                            *)
(***************************************************************************)
\* largest number of in-memory strategies the learner accumulates
MaxLearned == 1
\* largest retry_count carried by a state handed to the compiled graph
MaxRetryInput == 6

(***************************************************************************)
(* Program constants.                                                      *)
(***************************************************************************)
\* workflow.py:898/902  config = {"recursion_limit": 50}
RecursionLimitPlain == 50
\* main.py:332  config = {"recursion_limit": 15}
RecursionLimitReal == 15
\* workflow.py:251  if retry_count >= 5
HardRetryCap == 5
\* workflow.py:885 / main.py:318  "self_awareness_level": 0.5  (in 1/6000)
InitialSelfAwareness == 3000
\* reflect.py:91  self_awareness_level - 0.1  (in 1/6000)
FallbackPenalty == 600

ErrorTypes == {"ImagePullBackOff", "CrashLoopBackOff", "OOMKilled"}

EntryPoints == {"plain", "real"}

\* what the LLM reflection can come out as: meta_quality_score (tenths),
\* number of insights, confidence_level (tenths)
ReflectionKinds ==
    { [q |-> 9, n |-> 3, c |-> 9],
      [q |-> 3, n |-> 1, c |-> 3] }

\* a reply in prose: no JSON (confidence 0.7 by default), none of the insight
\* markers of _extract_insights_from_text, so no insight
ProseReflection == [q |-> 3, n |-> 0, c |-> 7]

VARIABLES
    pc,                 \* node of the graph to run next / "idle" / "END" / "done"
    entry,              \* entry point that started the run
    error_type,
    retry_count,
    success,
    requires_human_intervention,
    self_awareness_level,
    strategy_database,  \* number of in-memory learned strategies in the state
    reflection_history, \* sequence of [q, n] of the reflections of the run
    current_strategy,   \* selection_reason of the chosen strategy, "" for {}
    meta_reflection_result, \* "none" | "actionable" | "not_actionable"
    steps,              \* graph transitions (super-steps) taken by the run
    fixCount,           \* execute_fix invocations of the run
    retries,            \* re-entries into strategy_selection after a failure
    fixFailures,        \* execute_fix invocations that failed
    capHit,             \* strategy_selection hit the retry_count >= 5 branch
    fixAfterCap,        \* execute_fix ran after the cap branch was taken
    viaMetaEnd,         \* the run took meta_reflect's "end" edge
    result              \* what the entry point handed to its caller

wfVars == << pc, entry, error_type, retry_count, success,
             requires_human_intervention, self_awareness_level,
             strategy_database, reflection_history, current_strategy,
             meta_reflection_result, steps, fixCount, retries, fixFailures,
             capHit, fixAfterCap, viaMetaEnd, result >>

\* --- state of the safe executor ---
VARIABLES
    dry_run,        \* RealKubectlExecutor.dry_run
    xmode,          \* "idle" | "commands" | "manifest" | "finished" (a
                    \* command plan returned) | "manifest_done"
    plan,           \* shape of the plan: [keys, len]
    xphase,         \* phase whose next command is to be executed
    xidx,           \* 1-based index of that command in its phase
    cur,            \* execute_command call in progress / last finished
    all_results,    \* executed commands in order: [phase, idx, success]
    manifest_applied,
    temp_dir        \* "none" | "exists" | "removed"

exVars == << dry_run, xmode, plan, xphase, xidx, cur, all_results,
             manifest_applied, temp_dir >>

\* --- state of the persistent stores ---
VARIABLES
    strategies,          \* table strategies: id -> row (or no row)
    strategy_usage,      \* table strategy_usage, in insertion order
    strategy_evolution,  \* table strategy_evolution, in insertion order
    performance_history, \* table performance_history, in insertion order
    last_call            \* the last call made on a store and what it returned

stVars == << strategies, strategy_usage, strategy_evolution,
             performance_history, last_call >>

\* --- what a run has learnt, the persistent episodic memory ---
VARIABLES
    current_reflection, \* state["current_reflection"] (NoReflection: None)
    reflected,          \* reflect_on_action ran for the attempt in progress
    episodic_entry,     \* entry learn_and_evolve appended last to
                        \* state["episodic_memory"] (NoEntry: none yet)
    episodes            \* table episodes, in insertion order

lrVars == << current_reflection, reflected, episodic_entry >>

\* --- a call of a query or generator function, and database connections ---
VARIABLES
    request,            \* arguments of the call
    response,           \* what the call returned
    connections,        \* per caller: its update_strategy_performance call
    write_lock          \* holder of the database's write lock, or "free"

memVars == << lrVars, episodes, request, response, connections, write_lock >>

vars == << wfVars, exVars, stVars, memVars >>

NoResult == [kind |-> "none", success |-> FALSE,
             requires_human_intervention |-> FALSE]

(***************************************************************************)
(* Pure helpers of the workflow.                                           *)
(***************************************************************************)
RECURSIVE SumField(_, _)
SumField(s, f) ==
    IF s = << >> THEN 0 ELSE s[1][f] + SumField(Tail(s), f)

LastN(s, k) ==
    IF Len(s) <= k THEN s ELSE SubSeq(s, Len(s) - k + 1, Len(s))

Min(a, b) == IF a < b THEN a ELSE b
Max(a, b) == IF a > b THEN a ELSE b

\* reflect.py _calculate_self_awareness_level, result in units of 1/6000:
\*   0.4 * avg(meta_quality[-5:]) + 0.3 * min(1, avg(insights[-5:]) / 3)
\*   + 0.3 * confidence_level, capped at 1.0
\* (history is never empty here: the caller has just appended)
CalculateSelfAwarenessLevel(current, history) ==
    LET recent == LastN(history, 5)
        len    == Len(recent)
        avgq   == (240 * SumField(recent, "q")) \div len
        depth  == Min(1800, (600 * SumField(recent, "n")) \div len)
        meta   == 180 * current.c
    IN  Min(6000, avgq + depth + meta)

\* workflow.py _meta_reflection_node: actionable_insights
MetaReflection(history) ==
    IF Len(history) >= 2
    THEN LET recent == LastN(history, 3)
         IN  IF SumField(recent, "q") > 6 * Len(recent)
             THEN "actionable" ELSE "not_actionable"
    ELSE "not_actionable"

\* a routing that retries on the early-retry condition alone
PostLearningRouting_early_only(succ, rc, sa, db, et) ==
    IF succ THEN "success"
    ELSE IF rc < 2 THEN "retry"
    ELSE IF rc >= 2 /\ sa < 3600 THEN "meta_reflect"
    ELSE IF et \notin {"ImagePullBackOff", "CrashLoopBackOff"} THEN "deep_analysis"
    ELSE "human_escalation"

\* workflow.py _post_learning_routing
PostLearningRouting(succ, rc, sa, db, et) ==
    IF succ THEN "success"
    ELSE IF rc < 3 /\ ((sa > 4200 /\ db > 0) \/ rc < 2) THEN "retry"
    ELSE IF rc >= 2 /\ sa < 3600 THEN "meta_reflect"
    ELSE IF et \notin {"ImagePullBackOff", "CrashLoopBackOff"} THEN "deep_analysis"
    ELSE "human_escalation"

\* a routing that escalates one retry earlier
MetaReflectionRouting_escalate_early(mr, rc) ==
    IF mr = "actionable" THEN "retry_with_insights"
    ELSE IF rc >= 2 THEN "human_escalation"
    ELSE "end"

\* workflow.py _meta_reflection_routing
MetaReflectionRouting(mr, rc) ==
    IF mr = "actionable" THEN "retry_with_insights"
    ELSE IF rc >= 3 THEN "human_escalation"
    ELSE "end"

RecursionLimit(e) ==
    IF e = "plain" THEN RecursionLimitPlain ELSE RecursionLimitReal

GraphNodes == {"analyze_error", "strategy_selection", "decide_strategy",
               "execute_fix", "observe_outcome", "reflect_on_action",
               "learn_and_evolve", "meta_reflect", "human_escalation",
               "deep_analysis"}

\* a node may run while the run has super-steps left
CanStep(node) == pc = node /\ steps < RecursionLimit(entry)


(***************************************************************************)
(* The safe executor: strings and validation.                              *)
(*                                                                         *)
(* A command string is a sequence of atoms: " " is one whitespace          *)
(* character, every other atom is a run of non-whitespace characters.      *)
(* Adjacent non-space atoms are written without a separator, so            *)
(* <<"kubectl", "x">> is the string "kubectlx".                            *)
(***************************************************************************)
\* real_kubectl_executor.py:155 / workflow.py:71  max_retries = 3
MaxRetries == 3

\* bound: commands per phase of a plan
MaxPhaseLen == 2

Commands ==
    { << "kubectl", " ", "get", " ", "pod" >>,
      << " ", "kubectl", " ", "delete", " ", "pod" >>,
      << "kubectl", " ", "delete", " ", "namespace" >>,
      << "kubectl", " ", "DELETE", " ", "node" >>,
      << "kubectl", "x", " ", "get", " ", "pod" >>,
      << "docker", " ", "get" >>,
      << " " >>,
      << >> }

\* the command execute_yaml_manifest builds: f"kubectl apply -f {manifest_path}"
ApplyCommand == << "kubectl", " ", "apply", " ", "-f", " ", "path" >>

\* str.lower() on one atom
LowerAtom(a) ==
    CASE a = "DELETE"  -> "delete"
      [] a = "KUBECTL" -> "kubectl"
      [] OTHER         -> a

Lower(s) == [i \in 1 .. Len(s) |-> LowerAtom(s[i])]

RECURSIVE LStrip(_)
LStrip(s) ==
    IF s # << >> /\ s[1] = " " THEN LStrip(Tail(s)) ELSE s

RECURSIVE RStrip(_)
RStrip(s) ==
    IF s # << >> /\ s[Len(s)] = " "
    THEN RStrip(SubSeq(s, 1, Len(s) - 1)) ELSE s

\* str.strip()
Strip(s) == RStrip(LStrip(s))

\* str.startswith(p)
StartsWith(s, p) ==
    /\ Len(s) >= Len(p)
    /\ SubSeq(s, 1, Len(p)) = p

\* p in s
Contains(s, p) ==
    \E i \in 1 .. (Len(s) - Len(p) + 1) : SubSeq(s, i, i + Len(p) - 1) = p

\* str.split(): the maximal runs of non-whitespace atoms
RECURSIVE SplitFrom(_, _, _)
SplitFrom(s, tok, acc) ==
    IF s = << >>
    THEN IF tok = << >> THEN acc ELSE Append(acc, tok)
    ELSE IF s[1] = " "
         THEN SplitFrom(Tail(s), << >>,
                        IF tok = << >> THEN acc ELSE Append(acc, tok))
         ELSE SplitFrom(Tail(s), Append(tok, s[1]), acc)

Split(s) == SplitFrom(s, << >>, << >>)

\* KubectlSecurityValidator.forbidden_commands
forbidden_commands ==
    { << "delete", " ", "namespace" >>,
      << "delete", " ", "node" >>,
      << "delete", " ", "persistentvolume" >>,
      << "delete", " ", "pv" >>,
      << "delete", " ", "clusterrole" >>,
      << "delete", " ", "clusterrolebinding" >>,
      << "delete", " ", "customresourcedefinition" >>,
      << "delete", " ", "crd" >> }

\* KubectlSecurityValidator.validate_command: is_safe and blocked_reason
validate_command(command) ==
    LET command_lower == Strip(Lower(command))
    IN  IF command_lower = << >>
        THEN [is_safe |-> FALSE, blocked_reason |-> "Empty command"]
        ELSE IF ~StartsWith(command_lower, << "kubectl" >>)
        THEN [is_safe |-> FALSE, blocked_reason |-> "Non-kubectl command"]
        ELSE IF \E f \in forbidden_commands : Contains(command_lower, f)
        THEN [is_safe |-> FALSE,
              blocked_reason |-> "Contains forbidden operation"]
        ELSE [is_safe |-> TRUE, blocked_reason |-> "none"]

(***************************************************************************)
(* The safe executor: execute_command.                                     *)
(***************************************************************************)
\* how one attempt (create_subprocess_exec + communicate) can end: exit
\* code 0, another exit code, the timeout of wait_for, an exception
AttemptOutcomes == {"ok", "nonzero", "timeout", "error"}

\* an execute_command call: attempts counts the create_subprocess_exec
\* calls, only_nonzero tells that every attempt so far exited non-zero,
\* sleeps lists the back-off sleeps, killed that process.kill() was called
NoCommand ==
    [status |-> "none", command |-> << >>, blocked |-> FALSE,
     retry_count |-> 0, attempts |-> 0, only_nonzero |-> TRUE,
     sleeps |-> << >>,
     killed |-> FALSE, success |-> FALSE, exit_code |-> 0]

\* begin_command with the dry-run short cut taken before the validation
begin_command_dry_first(command, dry) ==
    IF dry
    THEN [NoCommand EXCEPT !.status = "finished", !.command = command,
                           !.success = TRUE]
    ELSE IF ~validate_command(command).is_safe
    THEN [NoCommand EXCEPT !.status = "finished", !.command = command,
                           !.blocked = TRUE, !.exit_code = -1]
    ELSE [NoCommand EXCEPT !.status = "running", !.command = command]

\* the ExecutionResult of a call that ends before the retry loop, or the
\* call entering the retry loop
begin_command(command, dry) ==
    LET validation == validate_command(command)
    IN  IF ~validation.is_safe
        THEN [NoCommand EXCEPT !.status = "finished", !.command = command,
                               !.blocked = TRUE, !.exit_code = -1]
        ELSE IF dry
        THEN [NoCommand EXCEPT !.status = "finished", !.command = command,
                               !.success = TRUE]
        ELSE [NoCommand EXCEPT !.status = "running", !.command = command]

RECURSIVE Pow2(_)
Pow2(n) == IF n = 0 THEN 1 ELSE 2 * Pow2(n - 1)

\* should_retry giving up one retry early
should_retry_one_less(rc) == rc < MaxRetries - 1

\* whether the loop goes round again after a failed attempt
\* (retry_on_failure is left at its default True by every caller)
should_retry(rc) == rc < MaxRetries

\* on_timeout treating the timeout like a non-zero exit: the child is killed
\* and the loop goes round again while retries are left
on_timeout_retried(ran) ==
    IF should_retry(ran.retry_count)
    THEN [ran EXCEPT !.killed = TRUE,
                     !.retry_count = ran.retry_count + 1,
                     !.sleeps = Append(ran.sleeps, Pow2(ran.retry_count + 1))]
    ELSE [ran EXCEPT !.status = "finished", !.killed = TRUE,
                     !.exit_code = -2]

\* except asyncio.TimeoutError: process.kill(), then the timeout result is
\* returned from inside the loop
on_timeout(ran) ==
    [ran EXCEPT !.status = "finished", !.killed = TRUE, !.exit_code = -2]

\* one turn of the while loop of execute_command with outcome o; a turn
\* that finds retry_count > max_retries leaves the loop ("max retries
\* exceeded", exit code -4) without starting a process
attempt_command(c, o) ==
    IF c.retry_count > MaxRetries
    THEN [c EXCEPT !.status = "finished", !.exit_code = -4]
    ELSE
    LET ran == [c EXCEPT !.attempts = c.attempts + 1,
                         !.only_nonzero = (c.only_nonzero /\ o = "nonzero")]
    IN  CASE o = "ok" ->
               [ran EXCEPT !.status = "finished", !.success = TRUE,
                           !.exit_code = 0]
          [] o = "timeout" -> on_timeout(ran)
          [] o = "nonzero" ->
               IF should_retry(c.retry_count)
               THEN [ran EXCEPT !.retry_count = c.retry_count + 1,
                                !.sleeps = Append(c.sleeps,
                                                  Pow2(c.retry_count + 1))]
               ELSE [ran EXCEPT !.status = "finished", !.exit_code = 1]
          [] o = "error" ->
               IF should_retry(c.retry_count)
               THEN [ran EXCEPT !.retry_count = c.retry_count + 1,
                                !.sleeps = Append(c.sleeps,
                                                  Pow2(c.retry_count + 1))]
               ELSE [ran EXCEPT !.status = "finished", !.exit_code = -3]

(***************************************************************************)
(* The safe executor: plans.                                               *)
(***************************************************************************)
\* execute_kubectl_commands_dict: execution_order
execution_order == << "backup_commands", "fix_commands",
                      "validation_commands", "rollback_commands" >>

Categories == { execution_order[i] : i \in 1 .. Len(execution_order) }

\* the shapes a commands_dict can have: which keys it holds and how many
\* commands each list has (a key may hold an empty list)
PlanShapes ==
    { [keys |-> K, len |-> L] :
        K \in SUBSET Categories, L \in [Categories -> 0 .. MaxPhaseLen] }

\* a missing key has no commands; an empty list is told from a missing key
\* only for rollback_commands (line 483), under the other keys line 470
\* treats both alike, so those keys are listed only when they hold commands
WellFormedPlan(p) ==
    /\ \A c \in Categories : c \notin p.keys => p.len[c] = 0
    /\ \A c \in p.keys : c # "rollback_commands" => p.len[c] > 0

NoPlan == [keys |-> {}, len |-> [c \in Categories |-> 0]]

\* line 470: category in commands_dict and commands_dict[category]
Runs(p, c) == c \in p.keys /\ p.len[c] > 0

\* stop_on_failure passed as True for every phase
stop_on_failure_always(phase) == TRUE

\* line 475 / 487: the stop_on_failure argument of the sequence of a phase
stop_on_failure(phase) == phase \in {"backup_commands", "fix_commands"}

\* key of all_results the results of a phase are stored under
ResultKey(phase) ==
    IF phase = "fix_rollback" THEN "rollback_commands" ELSE phase

PhaseLen(p, phase) == p.len[ResultKey(phase)]

\* the next category of execution_order after position i that runs
RECURSIVE NextCategoryFrom(_, _)
NextCategoryFrom(p, i) ==
    IF i > Len(execution_order) THEN "done"
    ELSE IF Runs(p, execution_order[i]) THEN execution_order[i]
    ELSE NextCategoryFrom(p, i + 1)

OrderIndex(c) == CHOOSE i \in 1 .. Len(execution_order) : execution_order[i] = c

\* all(r.success for r in results) of the fix phase
fix_success(results) ==
    \A i \in 1 .. Len(results) :
        results[i].phase = "fix_commands" => results[i].success

\* after_phase without the break that follows the rollback
after_phase_no_break(p, phase, results) ==
    IF phase = "fix_rollback"
    THEN NextCategoryFrom(p, OrderIndex("fix_commands") + 1)
    ELSE IF /\ phase = "fix_commands"
            /\ ~fix_success(results)
            /\ "rollback_commands" \in p.keys
    THEN IF p.len["rollback_commands"] > 0
         THEN "fix_rollback"
         ELSE NextCategoryFrom(p, OrderIndex("fix_commands") + 1)
    ELSE NextCategoryFrom(p, OrderIndex(phase) + 1)

\* where the loop of execute_kubectl_commands_dict goes once the sequence
\* of a phase has returned
after_phase(p, phase, results) ==
    IF phase = "fix_rollback" THEN "done"
    ELSE IF /\ phase = "fix_commands"
            /\ ~fix_success(results)
            /\ "rollback_commands" \in p.keys
    THEN IF p.len["rollback_commands"] > 0 THEN "fix_rollback" ELSE "done"
    ELSE NextCategoryFrom(p, OrderIndex(phase) + 1)

\* execute_command_sequence: the loop ends after the last command or, with
\* stop_on_failure, after the first failed one
sequence_ends(p, phase, idx, ok) ==
    \/ idx >= PhaseLen(p, phase)
    \/ (~ok /\ stop_on_failure(phase))

\* position of the executor after the command at (phase, idx) finished
\* with success ok, results being the results including that command
after_command(mode, p, phase, idx, ok, results) ==
    IF mode = "commands"
    THEN IF sequence_ends(p, phase, idx, ok)
         THEN [phase |-> after_phase(p, phase, results), idx |-> 1]
         ELSE [phase |-> phase, idx |-> idx + 1]
    ELSE \* execute_yaml_manifest
         CASE phase = "m_delete" -> [phase |-> "m_apply", idx |-> 1]
           [] phase = "m_apply" ->
                IF ok /\ p.len["validation_commands"] > 0
                THEN [phase |-> "m_validation", idx |-> 1]
                ELSE [phase |-> "done", idx |-> 1]
           [] phase = "m_validation" ->
                IF idx >= p.len["validation_commands"]
                THEN [phase |-> "done", idx |-> 1]
                ELSE [phase |-> "m_validation", idx |-> idx + 1]

ExecutorIdle ==
    /\ dry_run \in BOOLEAN
    /\ xmode = "idle"
    /\ plan = NoPlan
    /\ xphase = "done"
    /\ xidx = 1
    /\ cur = NoCommand
    /\ all_results = << >>
    /\ manifest_applied = FALSE
    /\ temp_dir = "none"

\* execute_kubectl_commands_dict is called with a plan
ExecuteKubectlCommandsDict ==
    /\ xmode = "idle"
    /\ \E p \in PlanShapes :
          /\ WellFormedPlan(p)
          /\ plan' = p
          /\ xphase' = NextCategoryFrom(p, 1)
          /\ xmode' = IF NextCategoryFrom(p, 1) = "done"
                      THEN "finished" ELSE "commands"
    /\ UNCHANGED << dry_run, xidx, cur, all_results, manifest_applied,
                    temp_dir >>
    /\ UNCHANGED << wfVars, stVars, memVars >>

\* finally block that leaves the directory where it is
cleanup_skipped(t) == t

\* finally block of execute_yaml_manifest: if temp_dir and
\* os.path.exists(temp_dir): shutil.rmtree(temp_dir)
cleanup(t) == IF t = "exists" THEN "removed" ELSE t

\* execute_yaml_manifest is called: tempfile.mkdtemp creates the temporary
\* directory (or raises, and the call returns through except and finally
\* with nothing created); the pre-delete command comes first
ExecuteYamlManifest ==
    /\ xmode = "idle"
    /\ \E n \in 0 .. MaxPhaseLen :
          plan' = [keys |-> {"validation_commands"},
                   len |-> [c \in Categories |->
                              IF c = "validation_commands" THEN n ELSE 0]]
    /\ \E made \in BOOLEAN :
          IF made
          THEN /\ xmode' = "manifest"
               /\ xphase' = "m_delete"
               /\ temp_dir' = "exists"
          ELSE /\ xmode' = "manifest_done"
               /\ xphase' = "done"
               /\ temp_dir' = cleanup(temp_dir)
    /\ UNCHANGED << dry_run, xidx, cur, all_results, manifest_applied >>
    /\ UNCHANGED << wfVars, stVars, memVars >>

\* the commands the caller can have put at the current position
CommandsAt(phase) == IF phase = "m_apply" THEN {ApplyCommand} ELSE Commands

\* a call of execute_command returned c: the result is stored and the
\* caller moves on (the finally block of execute_yaml_manifest included)
Finish(c) ==
    LET results == Append(all_results,
                          [phase |-> ResultKey(xphase), idx |-> xidx,
                           success |-> c.success])
        pos == after_command(xmode, plan, xphase, xidx, c.success, results)
    IN  /\ all_results' = results
        /\ xphase' = pos.phase
        /\ xidx' = pos.idx
        /\ xmode' = IF pos.phase # "done" THEN xmode
                    ELSE IF xmode = "manifest" THEN "manifest_done"
                    ELSE "finished"
        /\ manifest_applied' =
              (manifest_applied \/ (xphase = "m_apply" /\ c.success))
        /\ temp_dir' = IF xmode = "manifest" /\ pos.phase = "done"
                       THEN cleanup(temp_dir) ELSE temp_dir

\* execute_command is called for the command at the current position:
\* validation, dry-run short cut, or entry into the retry loop
BeginCommand ==
    /\ xmode \in {"commands", "manifest"}
    /\ cur.status # "running"
    /\ \E command \in CommandsAt(xphase) :
          LET c == begin_command(command, dry_run)
          IN  /\ cur' = c
              /\ IF c.status = "finished"
                 THEN Finish(c)
                 ELSE UNCHANGED << xmode, xphase, xidx, all_results,
                                   manifest_applied, temp_dir >>
    /\ UNCHANGED << dry_run, plan >>
    /\ UNCHANGED << wfVars, stVars, memVars >>

\* one attempt of the retry loop of execute_command
AttemptCommand ==
    /\ cur.status = "running"
    /\ \E o \in AttemptOutcomes :
          LET c == attempt_command(cur, o)
          IN  /\ cur' = c
              /\ IF c.status = "finished"
                 THEN Finish(c)
                 ELSE UNCHANGED << xmode, xphase, xidx, all_results,
                                   manifest_applied, temp_dir >>
    /\ UNCHANGED << dry_run, plan >>
    /\ UNCHANGED << wfVars, stVars, memVars >>

\* an exception is raised inside the try block of execute_yaml_manifest
\* between two commands (writing the manifest file, the sleep after the
\* pre-delete): except records the error, finally cleans up, the call returns
RaiseInManifest ==
    /\ xmode = "manifest"
    /\ cur.status # "running"
    /\ xmode' = "manifest_done"
    /\ xphase' = "done"
    /\ temp_dir' = cleanup(temp_dir)
    /\ UNCHANGED << dry_run, plan, xidx, cur, all_results, manifest_applied >>
    /\ UNCHANGED << wfVars, stVars, memVars >>

\* analyze_execution_results: validation_success
validation_success(results) ==
    \A i \in 1 .. Len(results) :
        results[i].phase = "validation_commands" => results[i].success

\* analyze_execution_results: overall_success (fix_success is True when the
\* results hold no fix_commands, validation_success likewise)
overall_success(results) == fix_success(results) /\ validation_success(results)

\* _execute_fix_node in manifest mode: success = yaml_execution["manifest_applied"]
execute_fix_success(applied, results) == applied

(***************************************************************************)
(* The persistent stores: PerformanceTracker (performance_history) and     *)
(* StrategyDatabase (strategies, strategy_usage, strategy_evolution).      *)
(* Confidences and rates are kept in units of 1/10000, divisions round     *)
(* down to that unit.                                                      *)
(***************************************************************************)
\* bound: rows of performance_history
MaxSamples == 5
\* bound: rows of strategy_usage
MaxUsage == 3
\* bound: rows of strategy_evolution
MaxEvolution == 4

\* performance_tracker.py:120  recent_window: int = 10
RecentWindow == 10
\* performance_tracker.py:138  return 0.5
NeutralConfidence == 5000
\* performance_tracker.py:160  if len(recent_data) >= 5
TrendMinSamples == 5
\* performance_tracker.py:167  min(0.2, max(-0.2, ...))
TrendCap == 2000
\* performance_tracker.py:176  max(-0.1, min(0.1, (60 - avg_resolution) / 600))
TimeCap == 1000
BaselineSeconds == 60
\* performance_tracker.py:181  min(0.95, max(0.05, ...))
ConfidenceMin == 500
ConfidenceMax == 9500
\* strategy_db.py:239  min(0.95, max(0.1, recent_success * 0.9 + 0.1))
StoreConfidenceMin == 1000

StrategyIds == {"s1", "s2"}

\* resolution_time of a sample, in seconds
ResolutionTimes == {0, 120}

Reverse(s) == [i \in 1 .. Len(s) |-> s[Len(s) + 1 - i]]

\* WHERE strategy_id = ?
RowsOf(table, id) == SelectSeq(table, LAMBDA r : r.strategy_id = id)

\* sum(1 for row in rows if row.success)
CountSuccess(rows) == Cardinality({ i \in 1 .. Len(rows) : rows[i].success })

\* weight = max(0.1, 1.0 - age_hours / 168), in tenths: a sample is either
\* fresh (age 0) or older than the week of the decay
Weight(r) == IF r.old THEN 1 ELSE 10

RECURSIVE SumWeights(_)
SumWeights(rows) ==
    IF rows = << >> THEN 0 ELSE Weight(rows[1]) + SumWeights(Tail(rows))

RECURSIVE SumWeightedSuccess(_)
SumWeightedSuccess(rows) ==
    IF rows = << >> THEN 0
    ELSE (IF rows[1].success THEN Weight(rows[1]) ELSE 0)
         + SumWeightedSuccess(Tail(rows))

RECURSIVE SumTimes(_)
SumTimes(rows) ==
    IF rows = << >> THEN 0
    ELSE rows[1].resolution_time + SumTimes(Tail(rows))

\* the final confidence without the lower clamp
clamp_confidence_upper_only(x) == Min(ConfidenceMax, x)

\* performance_tracker.py:181  min(0.95, max(0.05, x))
clamp_confidence(x) == Min(ConfidenceMax, Max(ConfidenceMin, x))

\* SELECT ... WHERE strategy_id = ? ORDER BY timestamp DESC LIMIT ?
recent_data(history, id) ==
    Reverse(LastN(RowsOf(history, id), RecentWindow))

\* PerformanceTracker.calculate_dynamic_confidence
calculate_dynamic_confidence(history, id) ==
    LET rd == recent_data(history, id)
        n  == Len(rd)
    IN  IF n = 0 THEN NeutralConfidence
        ELSE
        LET weighted_success_rate ==
                (10000 * SumWeightedSuccess(rd)) \div SumWeights(rd)
            half == n \div 2
            recent_half == SubSeq(rd, 1, half)
            older_half  == SubSeq(rd, half + 1, n)
            trend_factor ==
                IF n >= TrendMinSamples
                THEN Min(TrendCap, Max(0 - TrendCap,
                         (10000 * CountSuccess(recent_half)) \div Len(recent_half)
                         - (10000 * CountSuccess(older_half)) \div Len(older_half)))
                ELSE 0
            time_factor ==
                Max(0 - TimeCap, Min(TimeCap,
                    ((BaselineSeconds * n - SumTimes(rd)) * 10000)
                        \div (600 * n)))
        IN  clamp_confidence(weighted_success_rate + trend_factor + time_factor)

\* PerformanceTracker.record_performance: the confidence is calculated,
\* then the sample is inserted with it as confidence_after and it is
\* returned; when the insert fails confidence_before is returned
record_performance(history, id, succ, resolution_time, confidence_before, db_ok) ==
    LET new_confidence == calculate_dynamic_confidence(history, id)
    IN  IF db_ok
        THEN [history |-> Append(history,
                  [strategy_id |-> id, success |-> succ,
                   resolution_time |-> resolution_time, old |-> FALSE,
                   confidence_after |-> new_confidence]),
              value |-> new_confidence, ok |-> TRUE]
        ELSE [history |-> history, value |-> confidence_before, ok |-> FALSE]

NoRow == [present |-> FALSE, confidence |-> 0, success_rate |-> 0,
          usage_count |-> 0]

\* the strategies add_strategy is called with
NewStrategies ==
    [id : StrategyIds, confidence : {3000, 8000}, success_rate : {0, 8000},
     usage_count : {0}]

\* the three tables of the StrategyDatabase as one value
Database == [strategies |-> strategies, usage |-> strategy_usage,
             evolution |-> strategy_evolution]

\* add_strategy using INSERT OR REPLACE
add_strategy_replace(db, s, db_ok) ==
    IF ~db_ok
    THEN [db |-> db, ok |-> FALSE]
    ELSE [db |-> [db EXCEPT
                    !.strategies[s.id] =
                        [present |-> TRUE, confidence |-> s.confidence,
                         success_rate |-> s.success_rate,
                         usage_count |-> s.usage_count],
                    !.evolution = Append(@,
                        [strategy_id |-> s.id, version |-> 1,
                         change_type |-> "created",
                         new_confidence |-> s.confidence])],
          ok |-> TRUE]

\* StrategyDatabase.add_strategy: the INSERT fails on the PRIMARY KEY when
\* the id exists (or for another database error), the connection rolls
\* back and False is returned
add_strategy(db, s, db_ok) ==
    IF db.strategies[s.id].present \/ ~db_ok
    THEN [db |-> db, ok |-> FALSE]
    ELSE [db |-> [db EXCEPT
                    !.strategies[s.id] =
                        [present |-> TRUE, confidence |-> s.confidence,
                         success_rate |-> s.success_rate,
                         usage_count |-> s.usage_count],
                    !.evolution = Append(@,
                        [strategy_id |-> s.id, version |-> 1,
                         change_type |-> "created",
                         new_confidence |-> s.confidence])],
          ok |-> TRUE]

\* SELECT AVG(CAST(success AS FLOAT)) FROM strategy_usage WHERE strategy_id = ?
\* (called with at least one row of the id)
avg_success(usage, id) ==
    (10000 * CountSuccess(RowsOf(usage, id))) \div Len(RowsOf(usage, id))

\* usage_count left as it is
usage_count_unchanged(n) == n

\* SET usage_count = usage_count + 1
usage_count_after(n) == n + 1

\* new_confidence = min(0.95, max(0.1, recent_success * 0.9 + 0.1)); the
\* AVG of the query is taken over every usage row of the id (LIMIT 10
\* applies to the one row the aggregate returns)
store_confidence(recent_success) ==
    Min(ConfidenceMax,
        Max(StoreConfidenceMin, (recent_success * 9) \div 10 + 1000))

\* update_strategy_performance without the INSERT into strategy_evolution
update_strategy_performance_unlogged(db, id, succ, db_ok) ==
    IF ~db_ok
    THEN [db |-> db, ok |-> FALSE]
    ELSE
    LET usage == Append(db.usage, [strategy_id |-> id, success |-> succ])
        rate  == avg_success(usage, id)
        row   == db.strategies[id]
    IN  [db |-> [strategies |->
                    IF row.present
                    THEN [db.strategies EXCEPT
                            ![id] = [present |-> TRUE,
                                     confidence |-> store_confidence(rate),
                                     success_rate |-> rate,
                                     usage_count |->
                                        usage_count_after(row.usage_count)]]
                    ELSE db.strategies,
                 usage |-> usage,
                 evolution |-> db.evolution],
         ok |-> TRUE]

\* StrategyDatabase.update_strategy_performance: the usage row is inserted
\* whether or not the strategies table holds the id (the UPDATEs then touch
\* no row), the evolution row is appended, True is returned; a database
\* error rolls everything back and returns False
update_strategy_performance(db, id, succ, db_ok) ==
    IF ~db_ok
    THEN [db |-> db, ok |-> FALSE]
    ELSE
    LET usage == Append(db.usage, [strategy_id |-> id, success |-> succ])
        rate  == avg_success(usage, id)
        new_confidence == store_confidence(rate)
        row   == db.strategies[id]
    IN  [db |-> [strategies |->
                    IF row.present
                    THEN [db.strategies EXCEPT
                            ![id] = [present |-> TRUE,
                                     confidence |-> new_confidence,
                                     success_rate |-> rate,
                                     usage_count |->
                                        usage_count_after(row.usage_count)]]
                    ELSE db.strategies,
                 usage |-> usage,
                 evolution |-> Append(db.evolution,
                    [strategy_id |-> id,
                     version |-> Len(RowsOf(db.evolution, id)) + 1,
                     change_type |-> "performance_update",
                     new_confidence |-> new_confidence])],
         ok |-> TRUE]

NoCall == [op |-> "none", id |-> "", ok |-> FALSE, value |-> 0]

StoresEmpty ==
    /\ strategies = [id \in StrategyIds |-> NoRow]
    /\ strategy_usage = << >>
    /\ strategy_evolution = << >>
    /\ performance_history = << >>
    /\ last_call = NoCall

\* add_strategy is called
AddStrategy ==
    /\ Len(strategy_evolution) < MaxEvolution
    /\ \E s \in NewStrategies, db_ok \in BOOLEAN :
          LET r == add_strategy(Database, s, db_ok)
          IN  /\ strategies' = r.db.strategies
              /\ strategy_usage' = r.db.usage
              /\ strategy_evolution' = r.db.evolution
              /\ last_call' = [op |-> "add", id |-> s.id, ok |-> r.ok,
                               value |-> s.confidence]
    /\ UNCHANGED performance_history
    /\ UNCHANGED << wfVars, exVars, memVars >>

\* update_strategy_performance is called
UpdateStrategyPerformance ==
    /\ Len(strategy_usage) < MaxUsage
    /\ Len(strategy_evolution) < MaxEvolution
    /\ \E id \in StrategyIds, succ \in BOOLEAN, db_ok \in BOOLEAN :
          LET r == update_strategy_performance(Database, id, succ, db_ok)
          IN  /\ strategies' = r.db.strategies
              /\ strategy_usage' = r.db.usage
              /\ strategy_evolution' = r.db.evolution
              /\ last_call' = [op |-> "update", id |-> id, ok |-> r.ok,
                               value |-> IF succ THEN 1 ELSE 0]
    /\ UNCHANGED performance_history
    /\ UNCHANGED << wfVars, exVars, memVars >>

\* the strategy whose samples are followed through a long history
TrackedIds == {"s1"}

\* record_performance is called
RecordPerformance ==
    /\ Len(performance_history) < MaxSamples
    /\ \E id \in TrackedIds, succ \in BOOLEAN, t \in ResolutionTimes,
          db_ok \in BOOLEAN :
          LET r == record_performance(performance_history, id, succ, t,
                                      NeutralConfidence, db_ok)
          IN  /\ performance_history' = r.history
              /\ last_call' = [op |-> "record", id |-> id, ok |-> r.ok,
                               value |-> r.value]
    /\ UNCHANGED << strategies, strategy_usage, strategy_evolution >>
    /\ UNCHANGED << wfVars, exVars, memVars >>

\* more than a week passes: every sample recorded so far has decayed to the
\* minimum weight
AgeSamples ==
    /\ \E i \in 1 .. Len(performance_history) : ~performance_history[i].old
    /\ performance_history' =
          [i \in 1 .. Len(performance_history) |->
              [performance_history[i] EXCEPT !.old = TRUE]]
    /\ last_call' = [NoCall EXCEPT !.op = "age"]
    /\ UNCHANGED << strategies, strategy_usage, strategy_evolution >>
    /\ UNCHANGED << wfVars, exVars, memVars >>

(***************************************************************************)
(* Learning state, episodic memory and calls before anything has run.      *)
(***************************************************************************)
\* state["current_reflection"] is None
NoReflection == [ran |-> FALSE, insights_gained |-> 0, meta_quality_score |-> 0]

NoEntry == [created |-> FALSE, lessons_learned |-> 0, reflected |-> FALSE]

NoRequest == [op |-> "none"]

NoResponse == [op |-> "none"]

\* callers that share the strategy database
Callers == {"t1", "t2"}

\* a caller with no call in progress.  at: where its call stands; success:
\* the outcome it reports; work: the tables as its open transaction has
\* them; calls, returned_true, reported_success: the calls it has made,
\* those that returned True, and those of them that reported a success;
\* overlapped: its call began while another caller's was in progress
IdleConnection == [at |-> "idle", success |-> FALSE, work |-> << >>,
                   calls |-> 0, returned_true |-> 0, reported_success |-> 0,
                   overlapped |-> FALSE]

MemoryIdle ==
    /\ current_reflection = NoReflection
    /\ reflected = FALSE
    /\ episodic_entry = NoEntry
    /\ episodes = << >>
    /\ request = NoRequest
    /\ response = NoResponse
    /\ connections = [c \in Callers |-> IdleConnection]
    /\ write_lock = "free"

(***************************************************************************)
(* Episodic memory (episodic_memory.py).                                   *)
(*                                                                         *)
(* A context is a dictionary: a function from the keys it has to their     *)
(* values.  The rows of the table episodes are kept in insertion order,    *)
(* which is the order of their timestamps.                                 *)
(***************************************************************************)
\* bound: rows of the table episodes
MaxEpisodes == 3
\* bound: largest limit asked of get_similar_episodes
MaxLimit == 2
\* episodic_memory.py:149  (error_type, limit * 2)
FetchFactor == 2

ContextKeys == {"namespace", "pod_name"}

\* the contexts of stored episodes
StoredContexts ==
    { [k \in {"namespace"} |-> "a"],
      [k \in {"pod_name"} |-> "a"],
      [k \in ContextKeys |-> IF k = "namespace" THEN "a" ELSE "b"] }

\* the contexts of queries; << >> is the empty dictionary {}
QueryContexts ==
    { << >>,
      [k \in {"namespace"} |-> "a"],
      [k \in ContextKeys |-> "a"] }

\* _calculate_context_similarity as the fraction matches / len(common_keys);
\* 0.0 is the fraction 0 / 1
_calculate_context_similarity(context1, context2) ==
    LET common_keys == (DOMAIN context1) \cap (DOMAIN context2)
        matches == Cardinality({ key \in common_keys :
                                    context1[key] = context2[key] })
    IN  IF DOMAIN context1 = {} \/ DOMAIN context2 = {}
        THEN [matches |-> 0, of |-> 1]
        ELSE IF common_keys = {}
        THEN [matches |-> 0, of |-> 1]
        ELSE [matches |-> matches, of |-> Cardinality(common_keys)]

\* x[1] > y[1] of two similarities
MoreSimilar(x, y) == x.matches * y.of > y.matches * x.of

\* list.sort(key=similarity, reverse=True): stable, so entries of equal
\* similarity keep the order they had
RECURSIVE SortedBySimilarity(_)
SortedBySimilarity(scored) ==
    IF scored = << >> THEN << >>
    ELSE LET rest == SortedBySimilarity(SubSeq(scored, 1, Len(scored) - 1))
             x    == scored[Len(scored)]
             \* x goes before the first entry that is strictly less similar
             before == { i \in 1 .. Len(rest) :
                           \A j \in 1 .. i :
                              ~MoreSimilar(x.similarity, rest[j].similarity) }
             k    == Cardinality(before)
         IN  SubSeq(rest, 1, k) \o << x >> \o SubSeq(rest, k + 1, Len(rest))

FirstN(s, n) == SubSeq(s, 1, Min(n, Len(s)))

\* a result that is not cut to the limit after sorting
top_results_uncut(scored, limit) == scored

\* episodes[:limit]
top_results(scored, limit) == FirstN(scored, limit)

\* get_similar_episodes: the limit * 2 most recent episodes of the error
\* type are fetched, scored, sorted by similarity, and cut to the limit;
\* [] when the query raises
get_similar_episodes(table, et, context, limit, db_ok) ==
    IF ~db_ok THEN << >>
    ELSE
    LET of_type == SelectSeq(table, LAMBDA r : r.error_type = et)
        fetched == FirstN(Reverse(of_type), limit * FetchFactor)
        scored  == [i \in 1 .. Len(fetched) |->
                      [episode |-> fetched[i],
                       similarity |-> _calculate_context_similarity(
                                          context, fetched[i].context)]]
        ranked  == top_results(SortedBySimilarity(scored), limit)
    IN  [i \in 1 .. Len(ranked) |-> ranked[i].episode]

\* store_episode: the row is inserted; False and no row when the insert
\* raises (the id is the primary key)
store_episode(table, episode, db_ok) ==
    IF db_ok /\ \A i \in 1 .. Len(table) : table[i].id # episode.id
    THEN [table |-> Append(table, episode), ok |-> TRUE]
    ELSE [table |-> table, ok |-> FALSE]

EpisodeErrorTypes == {"ImagePullBackOff", "CrashLoopBackOff"}

\* store_episode is called with a new episode
StoreEpisode ==
    /\ Len(episodes) < MaxEpisodes
    /\ \E et \in EpisodeErrorTypes, context \in StoredContexts,
          db_ok \in BOOLEAN :
          LET episode == [id |-> Len(episodes) + 1, error_type |-> et,
                          context |-> context, lessons_learned |-> 2]
              r == store_episode(episodes, episode, db_ok)
          IN  /\ episodes' = r.table
              /\ request' = [op |-> "store_episode", episode |-> episode]
              /\ response' = [op |-> "store_episode", ok |-> r.ok]
    /\ UNCHANGED << wfVars, exVars, stVars, lrVars, connections, write_lock >>

\* get_similar_episodes is called
GetSimilarEpisodes ==
    /\ \E et \in EpisodeErrorTypes, context \in QueryContexts,
          limit \in 0 .. MaxLimit, db_ok \in BOOLEAN :
          /\ request' = [op |-> "get_similar_episodes", error_type |-> et,
                         context |-> context, limit |-> limit]
          /\ response' = [op |-> "get_similar_episodes",
                          episodes |-> get_similar_episodes(
                                         episodes, et, context, limit, db_ok)]
    /\ UNCHANGED << wfVars, exVars, stVars, lrVars, episodes, connections,
                    write_lock >>

(***************************************************************************)
(* The execution-feedback endpoint (main.py process_execution_feedback).   *)
(***************************************************************************)
\* request.workflow_id values; the episode id is made of the workflow id and
\* the second of the call, so two calls can produce the same id
WorkflowIds == {1, 2}

\* main.py:1361-1364  two lessons are written for every feedback
FeedbackLessons == 2

\* process_execution_feedback: the outcome is recorded in the strategy
\* store (update_strategy_performance) and an episode is stored in the
\* episodic memory; both calls return False on a failure, the node does not
\* look at what they return and sets both flags of the response once the
\* calls are back
ProcessExecutionFeedback ==
    /\ Len(strategy_usage) < MaxUsage
    /\ Len(strategy_evolution) < MaxEvolution
    /\ Len(episodes) < MaxEpisodes
    /\ \E id \in StrategyIds, execution_success \in BOOLEAN,
          partial_success \in BOOLEAN, et \in EpisodeErrorTypes,
          workflow_id \in WorkflowIds, store_ok \in BOOLEAN,
          memory_ok \in BOOLEAN :
          LET upd == update_strategy_performance(
                        Database, id, execution_success \/ partial_success,
                        store_ok)
              episode == [id |-> workflow_id, error_type |-> et,
                          context |-> [k \in {"workflow_id"} |-> "a"],
                          lessons_learned |-> FeedbackLessons]
              mem == store_episode(episodes, episode, memory_ok)
          IN  /\ strategies' = upd.db.strategies
              /\ strategy_usage' = upd.db.usage
              /\ strategy_evolution' = upd.db.evolution
              /\ episodes' = mem.table
              /\ request' = [op |-> "execution_feedback", strategy_id |-> id,
                             error_type |-> et, workflow_id |-> workflow_id]
              /\ response' = [op |-> "execution_feedback",
                              feedback_processed |-> TRUE,
                              reflexion_updated |-> TRUE,
                              strategy_confidence_updated |-> TRUE]
    /\ UNCHANGED << performance_history, last_call >>
    /\ UNCHANGED << wfVars, exVars, lrVars, connections, write_lock >>

(***************************************************************************)
(* The command generator (ai_command_generator.py).                        *)
(*                                                                         *)
(* A command plan is held by its shape: the number of commands under each  *)
(* of its keys.                                                            *)
(***************************************************************************)
required_keys == {"backup_commands", "fix_commands", "validation_commands",
                  "rollback_commands"}

\* what the LLM call can come to:
\*   "json"       the reply is a JSON object
\*   "wrapped"    the reply is text around a JSON object
\*   "not_object" the reply is JSON, but not an object (a list, a number)
\*   "no_braces"  the reply is text without any brace
\*   "bad_braces" the reply has braces, the text between them is not JSON
\*   "raises"     the call raises
Replies == {"json", "wrapped", "not_object", "no_braces", "bad_braces",
            "raises"}

\* the objects the LLM writes: some of the keys, one command under each
LLMObjects ==
    { [k \in keys |-> 1] : keys \in SUBSET required_keys }

GeneratorErrorTypes == {"ImagePullBackOff", "CrashLoopBackOff", "OOMKilled",
                        "ErrImagePull"}

_get_empty_command_structure == [k \in required_keys |-> 0]

\* _get_fallback_commands: one backup, two fix, two validation commands and
\* one rollback command for the three classes it knows, the empty structure
\* for any other class
_get_fallback_commands(et) ==
    IF et \in {"ImagePullBackOff", "CrashLoopBackOff", "OOMKilled"}
    THEN [k \in required_keys |->
             IF k \in {"fix_commands", "validation_commands"} THEN 2 ELSE 1]
    ELSE _get_empty_command_structure

\* _validate_command_structure: a missing key gets the empty list
_validate_command_structure(commands) ==
    [k \in required_keys |->
        IF k \in DOMAIN commands THEN commands[k] ELSE 0]

\* _call_gpt4_for_commands with _extract_json_from_response: json.loads of
\* the reply, else of the text between the first "{" and the last "}", else
\* the empty structure
_call_gpt4_for_commands(reply, object) ==
    CASE reply \in {"json", "wrapped"}          -> object
      [] reply \in {"no_braces", "bad_braces"}  -> _get_empty_command_structure

\* generate_kubectl_commands: the validated plan of the reply; the fallback
\* plan when the call or the validation raises
generate_kubectl_commands(et, reply, object) ==
    IF reply \in {"raises", "not_object"}
    THEN _get_fallback_commands(et)
    ELSE _validate_command_structure(_call_gpt4_for_commands(reply, object))

\* generate_kubectl_commands is called
GenerateKubectlCommands ==
    /\ \E et \in GeneratorErrorTypes, reply \in Replies,
          object \in LLMObjects :
          /\ request' = [op |-> "generate_kubectl_commands",
                         error_type |-> et, reply |-> reply,
                         object |-> object]
          /\ response' = [op |-> "generate_kubectl_commands",
                          commands |-> generate_kubectl_commands(
                                          et, reply, object)]
    /\ UNCHANGED << wfVars, exVars, stVars, lrVars, episodes, connections,
                    write_lock >>

(***************************************************************************)
(* The manifest generator (yaml_manifest_generator.py).                    *)
(*                                                                         *)
(* The reply of the LLM is a sequence of atoms: a body, or a markdown code  *)
(* fence ("fence_yaml" opens a yaml block, "fence" is the bare fence).     *)
(***************************************************************************)
\* what the reply can hold between its fences: a pod manifest, a manifest
\* with labels or annotations under spec, text that is no YAML document,
\* and prose (which YAML reads as one scalar)
ManifestBodies == {"manifest", "manifest_spec_labels",
                   "manifest_spec_annotations", "not_yaml", "prose"}

ManifestReplies ==
    UNION { { << b >>, << "fence_yaml", b, "fence" >>, << "fence", b, "fence" >> }
            : b \in ManifestBodies }

\* lines 261-268: the markdown fences are cut off the reply
clean_content(content) ==
    LET a == IF content # << >> /\ content[1] = "fence_yaml"
             THEN Tail(content) ELSE content
        b == IF a # << >> /\ a[1] = "fence" THEN Tail(a) ELSE a
    IN  IF b # << >> /\ b[Len(b)] = "fence"
        THEN SubSeq(b, 1, Len(b) - 1) ELSE b

\* yaml.safe_load(cleaned_content) does not raise
yaml_loads(content) ==
    \A i \in DOMAIN content : content[i] \notin {"not_yaml", "fence", "fence_yaml"}

\* a manifest by what matters of it: where it comes from, whether it parses,
\* whether labels or annotations sit under spec
ManifestOf(content) ==
    [source |-> "llm", parses |-> yaml_loads(content),
     spec_labels |-> \E i \in DOMAIN content :
                        content[i] = "manifest_spec_labels",
     spec_annotations |-> \E i \in DOMAIN content :
                        content[i] = "manifest_spec_annotations"]

\* _get_fallback_manifest: labels under metadata, dumped by yaml.dump
_get_fallback_manifest(et) ==
    [source |-> "fallback", parses |-> TRUE, spec_labels |-> FALSE,
     spec_annotations |-> FALSE]

\* generate_fix_manifest: the reply of _generate_manifest_with_ai once it
\* loads as YAML; the fallback when the LLM call or the load raises
generate_fix_manifest(et, reply, llm_ok) ==
    IF llm_ok /\ yaml_loads(clean_content(reply))
    THEN ManifestOf(clean_content(reply))
    ELSE _get_fallback_manifest(et)

\* generate_fix_manifest is called
GenerateFixManifest ==
    /\ \E et \in ErrorTypes, reply \in ManifestReplies, llm_ok \in BOOLEAN :
          /\ request' = [op |-> "generate_fix_manifest", error_type |-> et,
                         reply |-> reply, llm_ok |-> llm_ok]
          /\ response' = [op |-> "generate_fix_manifest",
                          manifest |-> generate_fix_manifest(et, reply,
                                                             llm_ok)]
    /\ UNCHANGED << wfVars, exVars, stVars, lrVars, episodes, connections,
                    write_lock >>

(***************************************************************************)
(* update_strategy_performance called by several callers at once.  Each    *)
(* call opens its own connection; its first statement, the INSERT, opens   *)
(* the transaction and takes the database's write lock, which one          *)
(* connection holds at a time.  A connection that finds the lock held      *)
(* waits, and gives up when the timeout of sqlite3.connect (5 seconds)     *)
(* runs out: the exception makes the call return False.                    *)
(***************************************************************************)
\* the INSERT can go ahead whoever holds the write lock
CanWrite_unlocked(c) == TRUE

\* the INSERT can go ahead: no other connection holds the write lock
CanWrite(c) == write_lock = "free"

SetTables(db) ==
    /\ strategies' = db.strategies
    /\ strategy_usage' = db.usage
    /\ strategy_evolution' = db.evolution

RECURSIVE SumOver(_, _)
SumOver(f, S) ==
    IF S = {} THEN 0
    ELSE LET x == CHOOSE y \in S : TRUE IN f[x] + SumOver(f, S \ {x})

\* calls made so far by all callers
CallsMade == SumOver([c \in Callers |-> connections[c].calls], Callers)

\* a caller calls update_strategy_performance for the tracked strategy
BeginCall(c) ==
    /\ connections[c].at = "idle"
    /\ CallsMade < MaxUsage
    /\ \E succ \in BOOLEAN :
          connections' = [connections EXCEPT
              ![c].at = "insert",
              ![c].success = succ,
              ![c].calls = @ + 1,
              ![c].overlapped =
                  \E o \in Callers \ {c} : connections[o].at # "idle"]
    /\ UNCHANGED write_lock
    /\ UNCHANGED << wfVars, exVars, stVars, lrVars, episodes, request,
                    response >>

\* the statements of the call run in its transaction (lines 188-256): the
\* INSERT takes the write lock, the UPDATEs and SELECTs see the tables with
\* the connection's own changes
ExecuteStatements(c) ==
    /\ connections[c].at = "insert"
    /\ CanWrite(c)
    /\ write_lock' = c
    /\ \E id \in TrackedIds :
          connections' = [connections EXCEPT
              ![c].at = "commit",
              ![c].work = update_strategy_performance(
                              Database, id, connections[c].success, TRUE).db]
    /\ UNCHANGED << wfVars, exVars, stVars, lrVars, episodes, request,
                    response >>

\* the write lock stays held until the timeout: OperationalError, the call
\* returns False and has written nothing
BusyTimeout(c) ==
    /\ connections[c].at = "insert"
    /\ ~CanWrite(c)
    /\ connections' = [connections EXCEPT ![c].at = "idle"]
    /\ UNCHANGED write_lock
    /\ UNCHANGED << wfVars, exVars, stVars, lrVars, episodes, request,
                    response >>

\* conn.commit() (line 258): the transaction's changes become the tables,
\* the lock is released, the call returns True
Commit(c) ==
    /\ connections[c].at = "commit"
    /\ SetTables(connections[c].work)
    /\ write_lock' = IF write_lock = c THEN "free" ELSE write_lock
    /\ connections' = [connections EXCEPT
          ![c].at = "idle",
          ![c].work = << >>,
          ![c].returned_true = @ + 1,
          ![c].reported_success =
              IF connections[c].success THEN @ + 1 ELSE @]
    /\ UNCHANGED << performance_history, last_call >>
    /\ UNCHANGED << wfVars, exVars, lrVars, episodes, request, response >>

\* a statement or the commit raises: the with block rolls the transaction
\* back, the call returns False
Rollback(c) ==
    /\ connections[c].at = "commit"
    /\ write_lock' = IF write_lock = c THEN "free" ELSE write_lock
    /\ connections' = [connections EXCEPT ![c].at = "idle",
                                          ![c].work = << >>]
    /\ UNCHANGED << wfVars, exVars, stVars, lrVars, episodes, request,
                    response >>

(***************************************************************************)
(* Strategy lookup (strategy_db.py get_strategies_for_error).              *)
(*                                                                         *)
(* A condition "key == 'value'" is held as [key, value]; a context is a    *)
(* dictionary, << >> being the empty one (or None).                        *)
(***************************************************************************)
\* bound: rows of the table strategies at a lookup
MaxRows == 3

\* the strategies that can be in the table; confidence and success_rate in
\* units of 1/10000.  "a" and "b" tie on confidence and success_rate.
StoredStrategies ==
    { [id |-> "a", error_type |-> "ImagePullBackOff", conditions |-> {},
       confidence |-> 9000, success_rate |-> 5000, usage_count |-> 1],
      [id |-> "b", error_type |-> "ImagePullBackOff",
       conditions |-> {[key |-> "namespace", value |-> "prod"]},
       confidence |-> 9000, success_rate |-> 5000, usage_count |-> 3],
      [id |-> "c", error_type |-> "ImagePullBackOff",
       conditions |-> {[key |-> "tier", value |-> "gold"]},
       confidence |-> 5000, success_rate |-> 5000, usage_count |-> 0],
      [id |-> "d", error_type |-> "CrashLoopBackOff", conditions |-> {},
       confidence |-> 5000, success_rate |-> 0, usage_count |-> 0] }

\* tables: rows in the order they were created, ids unique
StrategyTables ==
    UNION { { t \in [1 .. n -> StoredStrategies] :
                \A i, j \in 1 .. n : i # j => t[i].id # t[j].id }
            : n \in 0 .. MaxRows }

LookupContexts ==
    { << >>,
      [k \in {"namespace"} |-> "prod"],
      [k \in {"namespace"} |-> "dev"] }

\* _matches_context: True for an empty context; only a condition that names
\* the namespace is looked at, and only when the context has a namespace
_matches_context(strategy, context) ==
    \/ DOMAIN context = {}
    \/ \A condition \in strategy.conditions :
          (condition.key = "namespace" /\ "namespace" \in DOMAIN context)
             => condition.value = context["namespace"]

\* ORDER BY confidence DESC, success_rate DESC: a comes before b
OrderedBefore(a, b) ==
    \/ a.confidence > b.confidence
    \/ a.confidence = b.confidence /\ a.success_rate > b.success_rate

\* the orders in which the SELECT can deliver the rows of a set: any order
\* that agrees with its ORDER BY (rows that tie come in no promised order)
SelectOrders(rows) ==
    { r \in [1 .. Cardinality(rows) -> rows] :
        /\ \A x \in rows : \E i \in DOMAIN r : r[i] = x
        /\ \A i, j \in DOMAIN r : i < j => ~OrderedBefore(r[j], r[i]) }

\* get_strategies_for_error: the results it can return; [] when it raises
get_strategies_for_error(table, et, context, db_ok) ==
    IF ~db_ok THEN { << >> }
    ELSE LET rows == { table[i] : i \in DOMAIN table }
             of_type == { x \in rows : x.error_type = et }
         IN  { SelectSeq(r, LAMBDA x : _matches_context(x, context)) :
                  r \in SelectOrders(of_type) }

\* get_strategies_for_error is called on a table
GetStrategiesForError ==
    /\ \E table \in StrategyTables, et \in EpisodeErrorTypes,
          context \in LookupContexts, db_ok \in BOOLEAN :
          /\ request' = [op |-> "get_strategies_for_error", table |-> table,
                         error_type |-> et, context |-> context]
          /\ \E found \in get_strategies_for_error(table, et, context, db_ok) :
                response' = [op |-> "get_strategies_for_error",
                             raised |-> ~db_ok, strategies |-> found]
    /\ UNCHANGED << wfVars, exVars, stVars, lrVars, episodes, connections,
                    write_lock >>

(***************************************************************************)
(* Choice of the strategy in _intelligent_strategy_selection_node, for a   *)
(* run that holds no in-memory strategy.                                   *)
(***************************************************************************)
\* workflow.py:306  key=lambda s: max(s.confidence, 0.1)
SelectionFloor == 1000

Namespaces == {"prod", "dev"}

\* max(persistent_strategies, key=...): the first strategy of the list with
\* the largest key
best_persistent(found) ==
    LET key(x) == Max(x.confidence, SelectionFloor)
        i == CHOOSE i \in DOMAIN found :
                /\ \A j \in DOMAIN found : key(found[j]) <= key(found[i])
                /\ \A j \in 1 .. i - 1 : key(found[j]) < key(found[i])
    IN  found[i]

\* _get_default_strategy
default_strategy(et) ==
    [selection_reason |->
         IF et \in {"ImagePullBackOff", "CrashLoopBackOff"}
         THEN "default_fallback" ELSE "no_strategy_available",
     id |-> "default"]

\* the strategies the node can come out with.  The persistent strategies
\* are looked up without a context (line 291); _find_relevant_strategies
\* looks them up with the namespace of the incident and keeps the order of
\* the lookup (its sort is stable), the first of them is taken
select_strategy(table, et, namespace, use_persistent, db_ok) ==
    { IF persistent # << >> /\ use_persistent
      THEN [selection_reason |-> "high_confidence_persistent",
            id |-> best_persistent(persistent).id]
      ELSE IF relevant # << >>
      THEN [selection_reason |-> "highest_confidence_learned",
            id |-> relevant[1].id]
      ELSE default_strategy(et)
      : persistent \in get_strategies_for_error(table, et, << >>, db_ok),
        relevant \in get_strategies_for_error(
                        table, et, [k \in {"namespace"} |-> namespace], db_ok) }

\* the node chooses a strategy for an incident
SelectStrategy ==
    /\ \E table \in StrategyTables, et \in EpisodeErrorTypes,
          namespace \in Namespaces, use_persistent \in BOOLEAN,
          db_ok \in BOOLEAN :
          /\ request' = [op |-> "strategy_selection", table |-> table,
                         error_type |-> et,
                         context |-> [k \in {"namespace"} |-> namespace],
                         store_available |-> db_ok]
          /\ \E chosen \in select_strategy(table, et, namespace,
                                           use_persistent, db_ok) :
                response' = [op |-> "strategy_selection",
                             current_strategy |-> chosen]
    /\ UNCHANGED << wfVars, exVars, stVars, lrVars, episodes, connections,
                    write_lock >>

(***************************************************************************)
(* The orchestration graph.                                                *)
(***************************************************************************)
InitState(rcs) ==
    /\ pc = "analyze_error"
    /\ entry \in EntryPoints
    /\ error_type \in ErrorTypes
    /\ retry_count \in rcs
    /\ success = FALSE
    /\ requires_human_intervention = FALSE
    /\ self_awareness_level = InitialSelfAwareness
    /\ strategy_database = 0
    /\ reflection_history = << >>
    /\ current_strategy = ""
    /\ meta_reflection_result = "none"
    /\ steps = 0
    /\ fixCount = 0
    /\ retries = 0
    /\ fixFailures = 0
    /\ capHit = FALSE
    /\ fixAfterCap = FALSE
    /\ viaMetaEnd = FALSE
    /\ result = NoResult
    /\ ExecutorIdle
    /\ MemoryIdle
    /\ StoresEmpty

\* process_pod_error / process_pod_error_with_real_data build the initial
\* state with "retry_count": 0
Init == InitState({0})

\* compiled_workflow.ainvoke applied to a state whose retry_count is an input
InitGraph == InitState(0 .. MaxRetryInput)

Step(next) ==
    /\ pc' = next
    /\ steps' = steps + 1

\* _analyze_error_node, then the edge analyze_error -> strategy_selection
AnalyzeError ==
    /\ CanStep("analyze_error")
    /\ UNCHANGED << exVars, stVars, memVars >>
    /\ Step("strategy_selection")
    /\ UNCHANGED << entry, error_type, retry_count, success,
                    requires_human_intervention, self_awareness_level,
                    strategy_database, reflection_history, current_strategy,
                    meta_reflection_result, fixCount, retries, fixFailures,
                    capHit, fixAfterCap, viaMetaEnd, result >>

\* selection_reason of the strategy the node can pick: a persistent strategy
\* (80% dice), a relevant in-memory one, or the default of the error class
SelectableReasons(et) ==
    { "high_confidence_persistent", "highest_confidence_learned",
      IF et \in {"ImagePullBackOff", "CrashLoopBackOff"}
      THEN "default_fallback" ELSE "no_strategy_available" }

\* _intelligent_strategy_selection_node, then the unconditional edge
\* strategy_selection -> decide_strategy
StrategySelectionWith(reasons) ==
    /\ CanStep("strategy_selection")
    /\ UNCHANGED << exVars, stVars, memVars >>
    /\ Step("decide_strategy")
    /\ IF retry_count >= HardRetryCap
       THEN /\ success' = TRUE
            /\ requires_human_intervention' = TRUE
            /\ capHit' = TRUE
            /\ UNCHANGED current_strategy
       ELSE /\ current_strategy' \in reasons
            /\ UNCHANGED << success, requires_human_intervention, capHit >>
    /\ UNCHANGED << entry, error_type, retry_count, self_awareness_level,
                    strategy_database, reflection_history,
                    meta_reflection_result, fixCount, retries, fixFailures,
                    fixAfterCap, viaMetaEnd, result >>

StrategySelection == StrategySelectionWith(SelectableReasons(error_type))

\* the reasons left when the strategy database cannot be read:
\* get_strategies_for_error returns [] for every lookup, so the choice is
\* an in-memory strategy of the state, if it holds one, or the default
ReasonsStoreDown ==
    { x.selection_reason :
        x \in UNION { select_strategy(<< >>, error_type, ns, TRUE, FALSE)
                      : ns \in Namespaces } }
    \cup (IF strategy_database > 0
          THEN {"highest_confidence_learned"} ELSE {})

\* the node while the strategy database is unavailable
StrategySelectionStoreDown == StrategySelectionWith(ReasonsStoreDown)

\* _decide_strategy_node, then the edge decide_strategy -> execute_fix
DecideStrategy ==
    /\ CanStep("decide_strategy")
    /\ UNCHANGED << exVars, stVars, memVars >>
    /\ Step("execute_fix")
    /\ UNCHANGED << entry, error_type, retry_count, success,
                    requires_human_intervention, self_awareness_level,
                    strategy_database, reflection_history, current_strategy,
                    meta_reflection_result, fixCount, retries, fixFailures,
                    capHit, fixAfterCap, viaMetaEnd, result >>

\* _execute_fix_node: state["success"] is the outcome of the execution
\* (False as well when the node's try block caught an exception)
ExecuteFix ==
    /\ CanStep("execute_fix")
    /\ UNCHANGED << exVars, stVars >>
    /\ reflected' = FALSE
    /\ UNCHANGED << current_reflection, episodic_entry, episodes, request,
                    response, connections, write_lock >>
    /\ Step("observe_outcome")
    /\ \E ok \in BOOLEAN :
          /\ success' = ok
          /\ fixFailures' = IF ok THEN fixFailures ELSE fixFailures + 1
    /\ fixCount' = fixCount + 1
    /\ fixAfterCap' = (fixAfterCap \/ capHit)
    /\ UNCHANGED << entry, error_type, retry_count,
                    requires_human_intervention, self_awareness_level,
                    strategy_database, reflection_history, current_strategy,
                    meta_reflection_result, retries, capHit, viaMetaEnd,
                    result >>

\* _execute_fix_node while the strategy database is unavailable: the sample
\* goes to the tracker (a database of its own), update_strategy_performance
\* is called for a learned strategy and returns False
ExecuteFixStoreDown ==
    /\ CanStep("execute_fix")
    /\ Len(performance_history) < MaxSamples
    /\ UNCHANGED exVars
    /\ reflected' = FALSE
    /\ UNCHANGED << current_reflection, episodic_entry, episodes, request,
                    response, connections, write_lock >>
    /\ Step("observe_outcome")
    /\ \E ok \in BOOLEAN, t \in ResolutionTimes :
          LET id  == IF current_strategy = "highest_confidence_learned"
                     THEN "in_memory" ELSE "default"
              rec == record_performance(performance_history, id, ok, t,
                                        NeutralConfidence, TRUE)
              upd == IF current_strategy = "highest_confidence_learned"
                     THEN update_strategy_performance(Database, "s1", ok,
                                                      FALSE)
                     ELSE [db |-> Database, ok |-> FALSE]
          IN  /\ success' = ok
              /\ fixFailures' = IF ok THEN fixFailures ELSE fixFailures + 1
              /\ performance_history' = rec.history
              /\ SetTables(upd.db)
              /\ last_call' = [op |-> "fix", id |-> id, ok |-> FALSE,
                               value |-> rec.value]
    /\ fixCount' = fixCount + 1
    /\ fixAfterCap' = (fixAfterCap \/ capHit)
    /\ UNCHANGED << entry, error_type, retry_count,
                    requires_human_intervention, self_awareness_level,
                    strategy_database, reflection_history, current_strategy,
                    meta_reflection_result, retries, capHit, viaMetaEnd,
                    result >>

\* observe_outcome_node, then _should_reflect: the trigger list holds a
\* literal True, so the edge is always "reflect"
ObserveOutcome ==
    /\ CanStep("observe_outcome")
    /\ UNCHANGED << exVars, stVars, memVars >>
    /\ Step("reflect_on_action")
    /\ UNCHANGED << entry, error_type, retry_count, success,
                    requires_human_intervention, self_awareness_level,
                    strategy_database, reflection_history, current_strategy,
                    meta_reflection_result, fixCount, retries, fixFailures,
                    capHit, fixAfterCap, viaMetaEnd, result >>

\* reflect.py:405  insights_gained=[two fixed insights]
FallbackInsights == 2
\* learn.py:432  insights_gained[:3]
TopInsights == 3

\* reflect.py:408  meta_quality_score=0.2  (tenths)
FallbackQuality == 2

\* a fallback reflection of middling quality
_create_fallback_reflection_middling ==
    [ran |-> TRUE, insights_gained |-> FallbackInsights,
     meta_quality_score |-> 5]

\* reflect.py _create_fallback_reflection
_create_fallback_reflection ==
    [ran |-> TRUE, insights_gained |-> FallbackInsights,
     meta_quality_score |-> FallbackQuality]

\* learn.py _create_episodic_memory: the lessons are the first three
\* insights of state["current_reflection"], none when that is None
_create_episodic_memory(reflection) ==
    [created |-> TRUE, reflected |-> FALSE,
     lessons_learned |-> IF reflection.ran
                         THEN Min(TopInsights, reflection.insights_gained)
                         ELSE 0]

\* reflect_on_action_node: either the LLM reflection is processed and
\* appended, or the except branch installs the fallback reflection
ReflectOnActionWith(kinds) ==
    /\ CanStep("reflect_on_action")
    /\ UNCHANGED << exVars, stVars >>
    /\ Step("learn_and_evolve")
    /\ \/ \E k \in kinds :
             LET h == Append(reflection_history, [q |-> k.q, n |-> k.n])
             IN  /\ reflection_history' = h
                 /\ self_awareness_level' = CalculateSelfAwarenessLevel(k, h)
                 /\ current_reflection' =
                       [ran |-> TRUE, insights_gained |-> k.n,
                        meta_quality_score |-> k.q]
       \/ /\ self_awareness_level' =
                 Max(0, self_awareness_level - FallbackPenalty)
          /\ current_reflection' = _create_fallback_reflection
          /\ UNCHANGED reflection_history
    /\ reflected' = TRUE
    /\ UNCHANGED << episodic_entry, episodes, request, response,
                    connections, write_lock >>
    /\ UNCHANGED << entry, error_type, retry_count, success,
                    requires_human_intervention, strategy_database,
                    current_strategy, meta_reflection_result, fixCount,
                    retries, fixFailures, capHit, fixAfterCap, viaMetaEnd,
                    result >>

ReflectOnAction == ReflectOnActionWith(ReflectionKinds)

\* the same node when the LLM may also reply in prose
ReflectOnActionOrProse ==
    ReflectOnActionWith(ReflectionKinds \cup {ProseReflection})

RouteTarget(r) ==
    CASE r = "success"             -> "END"
      [] r = "retry"               -> "strategy_selection"
      [] r = "retry_with_insights" -> "strategy_selection"
      [] r = "meta_reflect"        -> "meta_reflect"
      [] r = "human_escalation"    -> "human_escalation"
      [] r = "deep_analysis"       -> "deep_analysis"
      [] r = "end"                 -> "END"

\* learn_and_evolve_node (the state's strategy_database may gain a strategy
\* from the reflection, an entry is appended to state["episodic_memory"]),
\* then _post_learning_routing
LearnAndEvolveWith(outcomes) ==
    /\ CanStep("learn_and_evolve")
    /\ UNCHANGED << exVars, stVars >>
    /\ UNCHANGED << current_reflection, reflected, episodes, request,
                    response, connections, write_lock >>
    /\ \E db \in { strategy_database, Min(MaxLearned, strategy_database + 1) },
          raised \in outcomes :
          LET r == PostLearningRouting(success, retry_count,
                                       self_awareness_level, db, error_type)
          IN  \* an exception before the entry is appended leaves the state
              \* as it was (the except branch only counts the failure)
              /\ raised => db = strategy_database
              /\ episodic_entry' =
                    IF raised THEN episodic_entry
                    ELSE [_create_episodic_memory(current_reflection)
                            EXCEPT !.reflected = reflected]
              /\ strategy_database' = db
              /\ Step(RouteTarget(r))
              /\ retries' = IF r = "retry" THEN retries + 1 ELSE retries
    /\ UNCHANGED << entry, error_type, retry_count, success,
                    requires_human_intervention, self_awareness_level,
                    reflection_history, current_strategy,
                    meta_reflection_result, fixCount, fixFailures, capHit,
                    fixAfterCap, viaMetaEnd, result >>

\* the node when its try block completes
LearnAndEvolve == LearnAndEvolveWith({FALSE})

\* the node when its try block may also raise
LearnAndEvolveOrRaise == LearnAndEvolveWith(BOOLEAN)

\* _meta_reflection_node, then _meta_reflection_routing
MetaReflect ==
    /\ CanStep("meta_reflect")
    /\ UNCHANGED << exVars, stVars, memVars >>
    /\ LET mr == MetaReflection(reflection_history)
           r  == MetaReflectionRouting(mr, retry_count)
       IN  /\ meta_reflection_result' = mr
           /\ Step(RouteTarget(r))
           /\ retries' = IF r = "retry_with_insights"
                         THEN retries + 1 ELSE retries
           /\ viaMetaEnd' = (viaMetaEnd \/ r = "end")
    /\ UNCHANGED << entry, error_type, retry_count, success,
                    requires_human_intervention, self_awareness_level,
                    strategy_database, reflection_history, current_strategy,
                    fixCount, fixFailures, capHit, fixAfterCap, result >>

\* _human_escalation_node, then the edge human_escalation -> END
HumanEscalation ==
    /\ CanStep("human_escalation")
    /\ UNCHANGED << exVars, stVars, memVars >>
    /\ Step("END")
    /\ requires_human_intervention' = TRUE
    /\ UNCHANGED << entry, error_type, retry_count, success,
                    self_awareness_level, strategy_database,
                    reflection_history, current_strategy,
                    meta_reflection_result, fixCount, retries, fixFailures,
                    capHit, fixAfterCap, viaMetaEnd, result >>

\* _deep_analysis_node, then the edge deep_analysis -> strategy_selection
DeepAnalysis ==
    /\ CanStep("deep_analysis")
    /\ UNCHANGED << exVars, stVars, memVars >>
    /\ Step("strategy_selection")
    /\ retries' = retries + 1
    /\ UNCHANGED << entry, error_type, retry_count, success,
                    requires_human_intervention, self_awareness_level,
                    strategy_database, reflection_history, current_strategy,
                    meta_reflection_result, fixCount, fixFailures, capHit,
                    fixAfterCap, viaMetaEnd, result >>

\* the graph reached END: both entry points build the response from the
\* final state
ReturnResult ==
    /\ pc = "END"
    /\ UNCHANGED << exVars, stVars, memVars >>
    /\ pc' = "done"
    /\ result' = [kind |-> "returned", success |-> success,
                  requires_human_intervention |-> requires_human_intervention]
    /\ UNCHANGED << entry, error_type, retry_count, success,
                    requires_human_intervention, self_awareness_level,
                    strategy_database, reflection_history, current_strategy,
                    meta_reflection_result, steps, fixCount, retries,
                    fixFailures, capHit, fixAfterCap, viaMetaEnd >>

\* ainvoke ran out of super-steps before END (GraphRecursionError):
\* process_pod_error's except returns {success: False,
\* requires_human_intervention: True}; process_pod_error_with_real_data's
\* except raises HTTPException(500)
AbortRun ==
    /\ pc \in GraphNodes
    /\ UNCHANGED << exVars, stVars, memVars >>
    /\ steps >= RecursionLimit(entry)
    /\ pc' = "done"
    /\ result' = IF entry = "plain"
                 THEN [kind |-> "returned", success |-> FALSE,
                       requires_human_intervention |-> TRUE]
                 ELSE [kind |-> "raised", success |-> FALSE,
                       requires_human_intervention |-> FALSE]
    /\ UNCHANGED << entry, error_type, retry_count, success,
                    requires_human_intervention, self_awareness_level,
                    strategy_database, reflection_history, current_strategy,
                    meta_reflection_result, steps, fixCount, retries,
                    fixFailures, capHit, fixAfterCap, viaMetaEnd >>

\* the nodes a run started by an entry point can reach
Next ==
    \/ AnalyzeError
    \/ StrategySelection
    \/ DecideStrategy
    \/ ExecuteFix
    \/ ObserveOutcome
    \/ ReflectOnAction
    \/ LearnAndEvolve
    \/ ReturnResult
    \/ AbortRun

\* every node of the graph
NextGraph ==
    \/ Next
    \/ MetaReflect
    \/ HumanEscalation
    \/ DeepAnalysis

Spec == Init /\ [][Next]_vars

SpecGraph == InitGraph /\ [][NextGraph]_vars

\* fairness of the run: the graph executor keeps scheduling the next node
FairSpec == Spec /\ WF_vars(Next)

\* a run of process_pod_error_with_real_data in which the reflection LLM may
\* also reply in prose and the learning node may raise
InitLearn ==
    /\ InitState({0})
    /\ entry = "real"
    /\ error_type = "ImagePullBackOff"

NextLearn ==
    \/ AnalyzeError
    \/ StrategySelection
    \/ DecideStrategy
    \/ ExecuteFix
    \/ ObserveOutcome
    \/ ReflectOnActionOrProse
    \/ LearnAndEvolveOrRaise
    \/ ReturnResult
    \/ AbortRun

SpecLearn == InitLearn /\ [][NextLearn]_vars

NextOutage ==
    \/ AnalyzeError
    \/ StrategySelectionStoreDown
    \/ DecideStrategy
    \/ ExecuteFixStoreDown
    \/ ObserveOutcome
    \/ ReflectOnAction
    \/ LearnAndEvolve
    \/ ReturnResult
    \/ AbortRun

\* a run of process_pod_error_with_real_data while the strategy database
\* can be neither read nor written
SpecOutage == InitLearn /\ [][NextOutage]_vars

\* with retry_count = 0 for the whole run the three nodes outside Next are
\* never scheduled
OnlyLiveNodes ==
    /\ retry_count = 0
    /\ pc \notin {"meta_reflect", "human_escalation", "deep_analysis"}

(***************************************************************************)
(* The executor on its own: one plan is executed, the graph stays put.     *)
(***************************************************************************)
InitExec ==
    /\ pc = "done"
    /\ entry = "plain"
    /\ error_type = "ImagePullBackOff"
    /\ retry_count = 0
    /\ success = FALSE
    /\ requires_human_intervention = FALSE
    /\ self_awareness_level = InitialSelfAwareness
    /\ strategy_database = 0
    /\ reflection_history = << >>
    /\ current_strategy = ""
    /\ meta_reflection_result = "none"
    /\ steps = 0
    /\ fixCount = 0
    /\ retries = 0
    /\ fixFailures = 0
    /\ capHit = FALSE
    /\ fixAfterCap = FALSE
    /\ viaMetaEnd = FALSE
    /\ result = NoResult
    /\ ExecutorIdle
    /\ MemoryIdle
    /\ StoresEmpty

NextExec ==
    \/ ExecuteKubectlCommandsDict
    \/ ExecuteYamlManifest
    \/ RaiseInManifest
    \/ BeginCommand
    \/ AttemptCommand

SpecExec == InitExec /\ [][NextExec]_vars

(***************************************************************************)
(* The stores on their own, and the fix attempt as _execute_fix_node runs  *)
(* it: manifest execution, then the outcome is recorded in the stores.     *)
(***************************************************************************)
NextStore ==
    \/ AddStrategy
    \/ UpdateStrategyPerformance

SpecStore == InitExec /\ [][NextStore]_vars

NextTracker ==
    \/ RecordPerformance
    \/ AgeSamples

SpecTracker == InitExec /\ [][NextTracker]_vars

NextEpisodes ==
    \/ StoreEpisode
    \/ GetSimilarEpisodes

\* the episodic memory under its two operations
SpecEpisodes == InitExec /\ [][NextEpisodes]_vars

\* bound: fix attempts recorded one after the other
MaxFixAttempts == 2

\* the strategies table as earlier runs can have left it: a strategy is
\* stored with the values a new strategy starts with, or is not stored
InitFix ==
    /\ pc = "execute_fix"
    /\ entry = "plain"
    /\ error_type = "ImagePullBackOff"
    /\ retry_count = 0
    /\ success = FALSE
    /\ requires_human_intervention = FALSE
    /\ self_awareness_level = InitialSelfAwareness
    /\ strategy_database = 0
    /\ reflection_history = << >>
    /\ current_strategy = ""
    /\ meta_reflection_result = "none"
    /\ steps = 0
    /\ fixCount = 0
    /\ retries = 0
    /\ fixFailures = 0
    /\ capHit = FALSE
    /\ fixAfterCap = FALSE
    /\ viaMetaEnd = FALSE
    /\ result = NoResult
    /\ ExecutorIdle
    /\ MemoryIdle
    /\ strategies \in [StrategyIds ->
                         {NoRow, [present |-> TRUE, confidence |-> 5000,
                                  success_rate |-> 0, usage_count |-> 0]}]
    /\ strategy_usage = << >>
    /\ strategy_evolution = << >>
    /\ performance_history = << >>
    /\ last_call = NoCall

\* _execute_fix_node after execute_yaml_manifest returned (lines 553-697):
\* success is taken from the execution, the sample is recorded in the
\* tracker and, for a learned strategy, the outcome in the strategy store;
\* the next invocation starts with a fresh execution
RecordFixOutcome ==
    /\ xmode = "manifest_done"
    /\ fixCount < MaxFixAttempts
    /\ \E id \in StrategyIds, learned \in BOOLEAN, t \in ResolutionTimes,
          tracker_ok \in BOOLEAN, store_ok \in BOOLEAN :
          LET succ == execute_fix_success(manifest_applied, all_results)
              confidence_before ==
                  IF strategies[id].present THEN strategies[id].confidence
                  ELSE NeutralConfidence
              rec == record_performance(performance_history, id, succ, t,
                                        confidence_before, tracker_ok)
              upd == IF learned
                     THEN update_strategy_performance(Database, id, succ,
                                                      store_ok)
                     ELSE [db |-> Database, ok |-> FALSE]
          IN  /\ performance_history' = rec.history
              /\ strategies' = upd.db.strategies
              /\ strategy_usage' = upd.db.usage
              /\ strategy_evolution' = upd.db.evolution
              \* ok: the sample and the usage record were both written
              /\ last_call' = [op |-> "fix", id |-> id,
                               ok |-> (rec.ok /\ upd.ok),
                               value |-> rec.value]
              /\ success' = succ
              /\ fixFailures' = IF succ THEN fixFailures ELSE fixFailures + 1
    /\ fixCount' = fixCount + 1
    /\ xmode' = "idle"
    /\ plan' = NoPlan
    /\ xphase' = "done"
    /\ xidx' = 1
    /\ cur' = NoCommand
    /\ all_results' = << >>
    /\ manifest_applied' = FALSE
    /\ temp_dir' = "none"
    /\ UNCHANGED << dry_run, pc, entry, error_type, retry_count,
                    requires_human_intervention, self_awareness_level,
                    strategy_database, reflection_history, current_strategy,
                    meta_reflection_result, steps, retries, capHit,
                    fixAfterCap, viaMetaEnd, result >>
    /\ UNCHANGED memVars

\* _execute_fix_node when generate_fix_manifest raises: the except branch
\* sets success = False, nothing is executed or recorded
FixRaises ==
    /\ xmode = "idle"
    /\ fixCount < MaxFixAttempts
    /\ success' = FALSE
    /\ fixCount' = fixCount + 1
    /\ fixFailures' = fixFailures + 1
    /\ UNCHANGED << pc, entry, error_type, retry_count,
                    requires_human_intervention, self_awareness_level,
                    strategy_database, reflection_history, current_strategy,
                    meta_reflection_result, steps, retries, capHit,
                    fixAfterCap, viaMetaEnd, result >>
    /\ UNCHANGED << exVars, stVars, memVars >>

\* execute_yaml_manifest is called by the node while attempts are left
StartFixExecution ==
    /\ fixCount < MaxFixAttempts
    /\ ExecuteYamlManifest

NextFix ==
    \/ StartFixExecution
    \/ RaiseInManifest
    \/ BeginCommand
    \/ AttemptCommand
    \/ RecordFixOutcome
    \/ FixRaises

SpecFix == InitFix /\ [][NextFix]_vars

NextLookup ==
    \/ GetStrategiesForError
    \/ SelectStrategy

\* lookups of strategies on any table
SpecLookup == InitExec /\ [][NextLookup]_vars

NextGenerator ==
    \/ GenerateKubectlCommands
    \/ GenerateFixManifest

\* the command generator called with any reply of the LLM
SpecGenerator == InitExec /\ [][NextGenerator]_vars

NextFeedback ==
    \/ ProcessExecutionFeedback

\* the stores hold strategy s1 and do not hold s2 (the workflow of InitFix
\* takes no step)
InitFeedback ==
    /\ InitFix
    /\ strategies["s1"].present
    /\ ~strategies["s2"].present

\* the feedback endpoint
SpecFeedback == InitFeedback /\ [][NextFeedback]_vars

NextConcurrent ==
    \/ \E c \in Callers : BeginCall(c)
    \/ \E c \in Callers : ExecuteStatements(c)
    \/ \E c \in Callers : BusyTimeout(c)
    \/ \E c \in Callers : Commit(c)
    \/ \E c \in Callers : Rollback(c)

\* callers recording outcomes of one stored strategy at the same time
SpecConcurrent == InitFeedback /\ [][NextConcurrent]_vars

(***************************************************************************)
(* Claims about the orchestration graph.                                   *)
(***************************************************************************)

\* C1: one run re-enters strategy_selection after a failed
\* attempt (a retry) at most 5 times.
C1_HardCap == retries <= HardRetryCap

C3_FiveFailedFixesThenEscalation ==
    fixFailures = fixCount =>
        /\ fixCount <= 5
        /\ (pc = "done" /\ fixCount > 0) =>
              /\ fixCount = 5
              /\ result.kind = "returned"
              /\ result.requires_human_intervention

\* C4: a run that ends without success hands its caller a Result with
\* requires_human_intervention = true; nothing is raised to the caller.
C4_FailureReportedInResult ==
    (pc = "done" /\ ~result.success) =>
        /\ result.kind = "returned"
        /\ result.requires_human_intervention

(***************************************************************************)
(* Claims about the safe executor.                                         *)
(***************************************************************************)
\* the cluster-scoped resources whose deletion is forbidden
ClusterScopedResources ==
    { "namespace", "node", "persistentvolume", "clusterrole",
      "clusterrolebinding", "customresourcedefinition" }

\* the command spells out a forbidden operation (in any letter case)
ContainsForbiddenOperation(command) ==
    \E r \in ClusterScopedResources :
        Contains(Lower(command), << "delete", " ", r >>)

LeadingTokenIsKubectl(command) ==
    /\ Split(command) # << >>
    /\ Split(command)[1] = << "kubectl" >>

\* C6: the empty command and every command whose leading token is not
\* exactly kubectl is rejected without starting a process.
C6_OnlyKubectlReachesExecution ==
    (cur.status # "none" /\ ~LeadingTokenIsKubectl(cur.command)) =>
        /\ cur.status = "finished"
        /\ cur.blocked
        /\ cur.attempts = 0
        /\ ~cur.success

HasResult(phase) ==
    \E i \in 1 .. Len(all_results) : all_results[i].phase = phase

FixFailed ==
    \E i \in 1 .. Len(all_results) :
        all_results[i].phase = "fix_commands" /\ ~all_results[i].success

ResultCount(phase) ==
    Cardinality({ i \in 1 .. Len(all_results) : all_results[i].phase = phase })

\* C7: every executed backup command precedes every executed fix command
\* and every executed fix command precedes every executed validation
\* command; when the fix phase failed and the plan has rollback commands, no
\* validation command is executed, the rollback commands come after the
\* fix commands and all of them have run when the plan is finished.
C7_PhaseOrder ==
    /\ \A i, j \in 1 .. Len(all_results) :
          i < j =>
             /\ ~(all_results[j].phase = "backup_commands"
                  /\ all_results[i].phase \in {"fix_commands",
                                               "validation_commands"})
             /\ ~(all_results[j].phase = "fix_commands"
                  /\ all_results[i].phase = "validation_commands")
    /\ (FixFailed /\ plan.len["rollback_commands"] > 0) =>
          /\ ~HasResult("validation_commands")
          /\ \A i, j \in 1 .. Len(all_results) :
                (all_results[i].phase = "rollback_commands"
                 /\ all_results[j].phase = "fix_commands") => j < i
          /\ xmode = "finished" =>
                ResultCount("rollback_commands") = plan.len["rollback_commands"]

C7_Witness ==
    /\ xmode = "finished"
    /\ FixFailed
    /\ HasResult("backup_commands")
    /\ HasResult("rollback_commands")
    /\ plan.len["validation_commands"] > 0

\* C8: for a plan with a non-empty rollback phase the results hold rollback
\* commands if and only if a fix command failed.
C8_RollbackIffFixFailed ==
    (xmode = "finished" /\ plan.len["rollback_commands"] > 0) =>
        (HasResult("rollback_commands") <=> FixFailed)

\* C9: in the backup and fix phases no command after the first failed
\* command of the phase is executed; a validation or rollback phase that is
\* run executes every one of its commands, whatever failed before.
C9_StopOnFailure ==
    /\ \A i, j \in 1 .. Len(all_results) :
          (/\ all_results[i].phase \in {"backup_commands", "fix_commands"}
           /\ all_results[j].phase = all_results[i].phase
           /\ ~all_results[i].success) => all_results[j].idx <= all_results[i].idx
    /\ xmode = "finished" =>
          \A ph \in {"validation_commands", "rollback_commands"} :
             HasResult(ph) => ResultCount(ph) = plan.len[ph]

C9_Witness ==
    /\ xmode = "finished"
    /\ plan.len["backup_commands"] = 2
    /\ ResultCount("backup_commands") = 1
    /\ \E i \in 1 .. Len(all_results) :
          /\ all_results[i].phase = "validation_commands"
          /\ all_results[i].idx = 1
          /\ ~all_results[i].success
    /\ ResultCount("validation_commands") = 2

\* C10: in real mode a validated command whose attempts all exit non-zero
\* is run exactly max_retries + 1 times, every attempt but the first after a
\* back-off sleep of 2^k seconds, and ends as a failed result; an attempt
\* that succeeds ends the call, the command is not run again.
C10_RetryBudget ==
    (~dry_run /\ cur.status # "none" /\ ~cur.blocked) =>
        /\ cur.status = "running" =>
              /\ ~cur.success
              /\ cur.attempts <= MaxRetries
              /\ Len(cur.sleeps) = cur.attempts
        /\ (cur.status = "finished" /\ cur.only_nonzero) =>
              /\ cur.attempts = MaxRetries + 1
              /\ ~cur.success
              /\ cur.exit_code = 1
        /\ cur.status = "finished" =>
              /\ Len(cur.sleeps) = cur.attempts - 1
              /\ \A k \in 1 .. Len(cur.sleeps) : cur.sleeps[k] = Pow2(k)

C10_Witness ==
    /\ ~dry_run
    /\ cur.status = "finished"
    /\ cur.only_nonzero
    /\ cur.attempts = MaxRetries + 1
    /\ cur.sleeps = << 2, 4, 8 >>

\* C11: an attempt that exceeds the timeout kills the child and ends the call
\* at once with the failed timeout result (exit code -2): no sleep and no
\* attempt follows it, whatever is left of the retry budget.
C11_TimeoutEndsCommand ==
    cur.killed =>
        /\ cur.status = "finished"
        /\ ~cur.success
        /\ cur.exit_code = -2
        /\ Len(cur.sleeps) = cur.attempts - 1
        /\ cur.attempts = cur.retry_count + 1

C11_Witness ==
    /\ cur.killed
    /\ cur.status = "finished"
    /\ cur.attempts = 2
    /\ cur.retry_count < MaxRetries

\* C12: the success value of an execution is true exactly when the fix
\* succeeded and every validation command succeeded: overall_success of a
\* command plan, and the success execute_fix records for a manifest plan
\* (manifest applied and every post-apply validation command succeeded).
C12_SuccessIffFixAndValidation ==
    /\ xmode = "finished" =>
          (overall_success(all_results) <=>
              \A i \in 1 .. Len(all_results) :
                 all_results[i].phase \in {"fix_commands", "validation_commands"}
                    => all_results[i].success)
    /\ xmode = "manifest_done" =>
          (execute_fix_success(manifest_applied, all_results) <=>
              /\ manifest_applied
              /\ \A i \in 1 .. Len(all_results) :
                    all_results[i].phase = "m_validation"
                       => all_results[i].success)

C14_RejectionMutatesNothing ==
    [][ (xmode = "manifest_done" /\ cur.blocked) =>
            /\ cur.attempts = 0
            /\ cur.sleeps = << >>
            /\ performance_history' = performance_history
            /\ strategy_usage' = strategy_usage
            /\ strategy_evolution' = strategy_evolution
            /\ strategies' = strategies
            /\ retry_count' = retry_count ]_vars

\* C15: a successful update_strategy_performance appends exactly one usage
\* record, for the strategy it was called with, and raises the usage_count
\* of that strategy's row by exactly one; no step lowers a usage_count.
C15_UsageCountStep ==
    [][ /\ \A id \in StrategyIds :
              (strategies[id].present /\ strategies'[id].present) =>
                  strategies'[id].usage_count >= strategies[id].usage_count
        /\ (last_call'.op = "update" /\ last_call'.ok) =>
              /\ Len(strategy_usage') = Len(strategy_usage) + 1
              /\ SubSeq(strategy_usage', 1, Len(strategy_usage)) = strategy_usage
              /\ strategy_usage'[Len(strategy_usage')].strategy_id = last_call'.id
              /\ strategies[last_call'.id].present =>
                    strategies'[last_call'.id].usage_count
                        = strategies[last_call'.id].usage_count + 1 ]_vars

C15_Witness ==
    /\ last_call.op = "update"
    /\ last_call.ok
    /\ strategies[last_call.id].present
    /\ strategies[last_call.id].usage_count = 2
    /\ Len(RowsOf(strategy_usage, last_call.id)) = 2

\* C16: every stored strategy with at least one usage record has a
\* success_rate equal to the mean of the success values of all usage records
\* of its id.
C16_SuccessRateIsMean ==
    \A id \in StrategyIds :
        (strategies[id].present /\ RowsOf(strategy_usage, id) # << >>) =>
            strategies[id].success_rate = avg_success(strategy_usage, id)

\* C17: after a fix attempt that updated a stored strategy, the confidence
\* of the strategy in the strategy store equals the tracker's dynamic
\* confidence of the strategy over the outcomes recorded so far.
C17_StoresAgree ==
    (last_call.op = "fix" /\ last_call.ok
     /\ strategies[last_call.id].present) =>
        strategies[last_call.id].confidence
            = calculate_dynamic_confidence(performance_history, last_call.id)

\* C18: calculate_dynamic_confidence lies in [0.05, 0.95] for every history
\* (0.5 for the empty one), so does every confidence_after it produced, and
\* so does the confidence update_strategy_performance writes, whatever the
\* usage records are.
C18_ConfidenceBounds ==
    /\ \A id \in StrategyIds :
          LET c == calculate_dynamic_confidence(performance_history, id)
          IN  /\ ConfidenceMin <= c /\ c <= ConfidenceMax
              /\ RowsOf(performance_history, id) = << >> => c = NeutralConfidence
    /\ \A i \in 1 .. Len(performance_history) :
          /\ ConfidenceMin <= performance_history[i].confidence_after
          /\ performance_history[i].confidence_after <= ConfidenceMax
    /\ \A n \in 1 .. MaxUsage + 1 : \A k \in 0 .. n :
          LET c == store_confidence((10000 * k) \div n)
          IN  ConfidenceMin <= c /\ c <= ConfidenceMax

C18_Witness ==
    /\ Len(performance_history) >= TrendMinSamples
    /\ \E i \in 1 .. Len(performance_history) :
          performance_history[i].confidence_after = ConfidenceMin
    /\ \E i \in 1 .. Len(performance_history) :
          performance_history[i].confidence_after = ConfidenceMax

\* C19: the value record_performance returns and stores as confidence_after
\* of the new sample is the dynamic confidence over the window that
\* includes the new sample.
C19_ReturnsConfidenceAfterAppend ==
    (last_call.op = "record" /\ last_call.ok) =>
        /\ last_call.value
              = calculate_dynamic_confidence(performance_history, last_call.id)
        /\ performance_history[Len(performance_history)].confidence_after
              = last_call.value

\* C20: add_strategy with an id that is already stored reports failure and
\* changes nothing: the row keeps its fields, no evolution entry is added.
C20_AddConflict ==
    [][ (last_call'.op = "add" /\ strategies[last_call'.id].present) =>
            /\ ~last_call'.ok
            /\ strategies' = strategies
            /\ strategy_usage' = strategy_usage
            /\ strategy_evolution' = strategy_evolution ]_vars

C20_Witness ==
    /\ last_call.op = "add"
    /\ ~last_call.ok
    /\ strategies[last_call.id].present
    /\ strategies[last_call.id].confidence # last_call.value
    /\ strategies[last_call.id].usage_count > 0

(***************************************************************************)
(* Routing after learning.                                                 *)
(***************************************************************************)
\* the edges that leave learn_and_evolve
PostLearningTargets == {"END", "strategy_selection", "meta_reflect",
                        "human_escalation", "deep_analysis"}

\* C28: after learn_and_evolve a successful attempt is routed to END, and a
\* failed attempt is routed to a retry (strategy_selection) exactly when
\* retry_count < 3 and (self-awareness > 0.7 with at least one learned
\* strategy in the state, or retry_count < 2).
C28_PostLearningRoute ==
    [][ (pc = "learn_and_evolve" /\ pc' \in PostLearningTargets) =>
          /\ success => pc' = "END"
          /\ ~success =>
                (pc' = "strategy_selection"
                   <=> /\ retry_count < 3
                       /\ \/ (self_awareness_level > 4200
                               /\ strategy_database' > 0)
                          \/ retry_count < 2) ]_vars

\* a failed third attempt (retry_count = 2) was routed to a retry because
\* self-awareness is above 0.7 and a learned strategy is in the state
C28_Witness ==
    /\ pc = "strategy_selection"
    /\ retries >= 1
    /\ ~success
    /\ retry_count = 2
    /\ self_awareness_level > 4200
    /\ strategy_database > 0
    /\ error_type = "ImagePullBackOff"

\* the error classes the system knows
KnownErrorClasses == {"ImagePullBackOff", "CrashLoopBackOff", "OOMKilled",
                      "CreateContainerConfigError", "ErrImagePull"}

Answered == request.op = "get_similar_episodes"
               /\ response.op = "get_similar_episodes"

Returned(ep) == \E i \in 1 .. Len(response.episodes) :
                    response.episodes[i] = ep

SimilarityToQuery(ep) ==
    _calculate_context_similarity(request.context, ep.context)

\* C23: get_similar_episodes returns at most limit episodes and every
\* returned episode has exactly the requested error class, whatever the
\* store holds and whatever the context is.
C23_RetrievalSound ==
    Answered =>
        /\ Len(response.episodes) <= request.limit
        /\ \A i \in 1 .. Len(response.episodes) :
              response.episodes[i].error_type = request.error_type

\* a query with limit 1 and the empty context was answered with one episode
\* while the store holds two episodes of the class and one of another class
C23_Witness ==
    /\ Answered
    /\ request.limit = 1
    /\ request.context = << >>
    /\ Len(response.episodes) = 1
    /\ Len(SelectSeq(episodes,
                     LAMBDA r : r.error_type = request.error_type)) = 2
    /\ \E i \in 1 .. Len(episodes) :
          episodes[i].error_type # request.error_type

\* C24: the result is ranked by context similarity to the query, ties
\* broken by recency, and no stored episode of the class that is left out
\* is more similar to the query than an episode that is returned.
C24_RankedBySimilarity ==
    Answered =>
        /\ \A i, j \in 1 .. Len(response.episodes) :
              i < j =>
                 LET a == response.episodes[i]
                     b == response.episodes[j]
                 IN  /\ ~MoreSimilar(SimilarityToQuery(b),
                                     SimilarityToQuery(a))
                     /\ ~MoreSimilar(SimilarityToQuery(a),
                                     SimilarityToQuery(b)) => a.id > b.id
        /\ \A k \in 1 .. Len(episodes) :
              (episodes[k].error_type = request.error_type
               /\ ~Returned(episodes[k])
               /\ response.episodes # << >>) =>
                 \A i \in 1 .. Len(response.episodes) :
                    ~MoreSimilar(SimilarityToQuery(episodes[k]),
                                 SimilarityToQuery(response.episodes[i]))

(***************************************************************************)
(* Episodes of a run.                                                      *)
(***************************************************************************)
\* workflow.py:272  limit=5
SelectionLimit == 5

\* what _intelligent_strategy_selection_node retrieves for an incident of
\* the error class
RetrievedForSelection(et) ==
    get_similar_episodes(episodes, et, [k \in ContextKeys |-> "a"],
                         SelectionLimit, TRUE)

\* C25: once a run that went through learn_and_evolve has completed, an
\* episode of its error class carrying its lessons is in the persistent
\* episodic memory, where strategy_selection of the next incident of the
\* class retrieves it through get_similar_episodes.
C25_EpisodePersisted ==
    (pc = "done" /\ result.kind = "returned" /\ episodic_entry.created) =>
        \E i \in 1 .. Len(RetrievedForSelection(error_type)) :
           LET ep == RetrievedForSelection(error_type)[i]
           IN  /\ ep.error_type = error_type
               /\ ep.lessons_learned = episodic_entry.lessons_learned

\* C26: the episode learn_and_evolve creates has lessons exactly when the
\* reflector ran for the attempt (its fallback reflection included).
C26_LessonsIffReflected ==
    episodic_entry.created =>
        (episodic_entry.lessons_learned > 0 <=> episodic_entry.reflected)

(***************************************************************************)
(* Execution feedback.                                                     *)
(***************************************************************************)
\* C27: each processed execution feedback writes exactly one performance
\* sample to the performance tracker and exactly one episode to the
\* episodic memory, the episode being that of the request.
C27_FeedbackWritesSampleAndEpisode ==
    [][ ProcessExecutionFeedback =>
          /\ Len(performance_history') = Len(performance_history) + 1
          /\ Len(episodes') = Len(episodes) + 1
          /\ episodes'[Len(episodes')].error_type = request'.error_type
      ]_vars

(***************************************************************************)
(* Command generation.                                                     *)
(***************************************************************************)
\* C30: when the LLM reply cannot be parsed as a command plan (neither as
\* JSON nor by bracket extraction), generate_kubectl_commands returns the
\* default plan _get_fallback_commands gives for the error class, never an
\* empty plan.
C30_UnparseableGivesDefaultPlan ==
    (request.op = "generate_kubectl_commands"
     /\ request.reply \in {"no_braces", "bad_braces"}) =>
        /\ response.commands = _get_fallback_commands(request.error_type)
        /\ response.commands # _get_empty_command_structure

(***************************************************************************)
(* Strategy lookup.                                                        *)
(***************************************************************************)
\* a condition holds when the context gives its key the value it asserts
ConditionHolds(condition, context) ==
    /\ condition.key \in DOMAIN context
    /\ context[condition.key] = condition.value

\* position of a row in the table: the order of created_at
CreatedAt(table, x) == CHOOSE i \in DOMAIN table : table[i] = x

\* a precedes-or-ties b in (confidence DESC, success_rate DESC,
\* usage_count DESC, created_at ASC)
RankedBefore(table, a, b) ==
    \/ OrderedBefore(a, b)
    \/ /\ ~OrderedBefore(b, a)
       /\ \/ a.usage_count > b.usage_count
          \/ /\ a.usage_count = b.usage_count
             /\ CreatedAt(table, a) < CreatedAt(table, b)

\* C21: get_strategies_for_error returns exactly the stored strategies of
\* the error class whose conditions all hold for the context (a condition on
\* a key the context does not have excludes the strategy), ordered by
\* confidence, then success_rate, then usage_count descending, then
\* created_at ascending.
C21_LookupFiltersAndOrders ==
    (request.op = "get_strategies_for_error" /\ ~response.raised) =>
        LET found == response.strategies
            table == request.table
        IN  /\ { found[i] : i \in DOMAIN found }
                  = { table[i] : i \in { j \in DOMAIN table :
                        /\ table[j].error_type = request.error_type
                        /\ \A c \in table[j].conditions :
                              ConditionHolds(c, request.context) } }
            /\ \A i, j \in DOMAIN found :
                  i < j => RankedBefore(table, found[i], found[j])

(***************************************************************************)
(* Concurrent recording of outcomes.                                       *)
(***************************************************************************)
AllReturned == \A c \in Callers : connections[c].at = "idle"

ReturnedTrue ==
    SumOver([c \in Callers |-> connections[c].returned_true], Callers)

ReportedSuccess ==
    SumOver([c \in Callers |-> connections[c].reported_success], Callers)

PerformanceUpdates(id) ==
    SelectSeq(RowsOf(strategy_evolution, id),
              LAMBDA r : r.change_type = "performance_update")

\* C22: once all concurrent update_strategy_performance calls for one
\* strategy have returned, the strategy has one usage row and one
\* performance_update row per call that returned True, usage_count has grown
\* by that number (from 0), the usage rows carry the outcomes those calls
\* reported, and success_rate is the mean over the usage rows.
C22_ConcurrentOutcomesSerialised ==
    AllReturned =>
        \A id \in TrackedIds :
            /\ Len(RowsOf(strategy_usage, id)) = ReturnedTrue
            /\ Len(PerformanceUpdates(id)) = ReturnedTrue
            /\ strategies[id].usage_count = ReturnedTrue
            /\ CountSuccess(RowsOf(strategy_usage, id)) = ReportedSuccess
            /\ ReturnedTrue > 0 =>
                  strategies[id].success_rate = avg_success(strategy_usage, id)

\* two callers' calls overlapped and both have returned True
C22_Witness ==
    /\ AllReturned
    /\ \A c \in Callers : connections[c].returned_true >= 1
    /\ \E c \in Callers : connections[c].overlapped
    /\ ReportedSuccess = 1

(***************************************************************************)
(* Claims about retry_count, meta-reflection and the reported Result.      *)
(***************************************************************************)
\* C34: retry_count grows by one at each re-entry into strategy_selection
\* after a failed attempt, so whenever execute_fix is about to run
\* retry_count equals the number of fix attempts made so far in the run.
C34_RetryCountCountsAttempts ==
    pc = "execute_fix" => retry_count = fixCount

\* the last three reflections hold actionable insights
ActionableInsights ==
    /\ Len(reflection_history) >= 2
    /\ SumField(LastN(reflection_history, 3), "q")
          > 6 * Len(LastN(reflection_history, 3))

\* C35: meta_reflect is entered only from learn_and_evolve after a failed
\* attempt with retry_count >= 2 and self-awareness < 0.6; from meta_reflect
\* the run goes to strategy_selection only when the last three reflections
\* (at least two, average quality > 0.6) are actionable, otherwise to
\* human_escalation when retry_count >= 3 and to END when retry_count < 3.
C35_MetaReflectRouting ==
    [][ /\ (pc # "meta_reflect" /\ pc' = "meta_reflect") =>
              /\ pc = "learn_and_evolve"
              /\ ~success
              /\ retry_count >= 2
              /\ self_awareness_level < 3600
        /\ (pc = "meta_reflect" /\ pc' \notin {"meta_reflect", "done"}) =>
              pc' = IF ActionableInsights THEN "strategy_selection"
                    ELSE IF retry_count >= 3 THEN "human_escalation"
                    ELSE "END" ]_vars

\* meta_reflect found actionable insights and sent the run back to
\* strategy_selection
C35_Witness ==
    /\ pc = "strategy_selection"
    /\ meta_reflection_result = "actionable"
    /\ retries > 0
    /\ self_awareness_level < 3600

BackupFailed ==
    \E i \in 1 .. Len(all_results) :
        all_results[i].phase = "backup_commands" /\ ~all_results[i].success

\* C38: in execute_kubectl_commands_dict no fix command is executed once a
\* backup command has failed.
C38_NoFixAfterFailedBackup ==
    (xmode \in {"commands", "finished"} /\ BackupFailed) =>
        ~HasResult("fix_commands")

(***************************************************************************)
(* Claims about the flags of the feedback response.                        *)
(***************************************************************************)
\* C40: the feedback response has strategy_confidence_updated = true only
\* if the store update succeeded for a strategy that exists, and
\* reflexion_updated = true only if the episode was stored; no usage or
\* evolution row is left that refers to a strategy without a row.
C40_FeedbackFlagsTruthful ==
    [][ ProcessExecutionFeedback =>
          /\ response'.strategy_confidence_updated =>
                /\ strategies[request'.strategy_id].present
                /\ Len(strategy_usage') = Len(strategy_usage) + 1
          /\ response'.reflexion_updated =>
                Len(episodes') = Len(episodes) + 1
          /\ \A i \in 1 .. Len(strategy_usage') :
                strategies'[strategy_usage'[i].strategy_id].present
          /\ \A i \in 1 .. Len(strategy_evolution') :
                strategies'[strategy_evolution'[i].strategy_id].present
      ]_vars

(***************************************************************************)
(* Claims about the choice of a stored strategy.                           *)
(***************************************************************************)
\* the stored strategies eligible for the incident of the request
EligibleStrategies ==
    { x \in { request.table[i] : i \in DOMAIN request.table } :
        /\ x.error_type = request.error_type
        /\ \A c \in x.conditions : ConditionHolds(c, request.context) }

\* C36: a strategy chosen with selection_reason high_confidence_persistent
\* has the error class of the incident, all its conditions hold for the
\* incident context, and no eligible stored strategy has a higher
\* confidence.
C36_PersistentChoiceEligible ==
    (/\ request.op = "strategy_selection"
     /\ response.current_strategy.selection_reason
           = "high_confidence_persistent") =>
        \E x \in EligibleStrategies :
            /\ x.id = response.current_strategy.id
            /\ \A y \in EligibleStrategies : y.confidence <= x.confidence

(***************************************************************************)
(* Claims about the generated manifest.                                    *)
(***************************************************************************)
\* C31: the manifest generate_fix_manifest returns parses and has neither
\* labels nor annotations under spec; when the LLM reply does not parse or
\* has labels or annotations under spec, the fallback manifest is returned.
C31_ManifestWellPlaced ==
    request.op = "generate_fix_manifest" =>
        LET body == ManifestOf(clean_content(request.reply))
            m    == response.manifest
        IN  /\ m.parses
            /\ ~m.spec_labels
            /\ ~m.spec_annotations
            /\ (~body.parses \/ body.spec_labels \/ body.spec_annotations)
                  => m.source = "fallback"

(***************************************************************************)
(* Claims about what a fix attempt records.                                *)
(***************************************************************************)
\* C37: a fix attempt made with a strategy of the strategy store, the
\* stores being available, appends exactly one sample to the tracker, one
\* usage row and one performance_update evolution row for that strategy;
\* sample and usage row carry the success of the attempt, and nothing
\* recorded before is changed (n attempts leave n rows of each kind).
C37_FixAttemptRecordsOnce ==
    [][ (/\ xmode = "manifest_done"
         /\ fixCount' = fixCount + 1
         /\ last_call'.ok
         /\ strategies[last_call'.id].present) =>
            LET id == last_call'.id
                nh == Len(performance_history)
                nu == Len(strategy_usage)
                ne == Len(strategy_evolution)
            IN  /\ Len(performance_history') = nh + 1
                /\ SubSeq(performance_history', 1, nh) = performance_history
                /\ performance_history'[nh + 1].strategy_id = id
                /\ performance_history'[nh + 1].success = success'
                /\ Len(strategy_usage') = nu + 1
                /\ SubSeq(strategy_usage', 1, nu) = strategy_usage
                /\ strategy_usage'[nu + 1] =
                      [strategy_id |-> id, success |-> success']
                /\ Len(strategy_evolution') = ne + 1
                /\ SubSeq(strategy_evolution', 1, ne) = strategy_evolution
                /\ strategy_evolution'[ne + 1].strategy_id = id
                /\ strategy_evolution'[ne + 1].change_type
                      = "performance_update" ]_vars

\* two attempts with one stored strategy, a failed and a successful one,
\* have left two rows of each kind
C37_Witness ==
    /\ last_call.op = "fix"
    /\ last_call.ok
    /\ strategies[last_call.id].present
    /\ fixCount = 2
    /\ Len(RowsOf(performance_history, last_call.id)) = 2
    /\ Len(RowsOf(strategy_usage, last_call.id)) = 2
    /\ Len(PerformanceUpdates(last_call.id)) = 2
    /\ CountSuccess(RowsOf(strategy_usage, last_call.id)) = 1

(***************************************************************************)
(* Claims about a run without the strategy store.                          *)
(***************************************************************************)
\* C32: while the strategy store can be neither read nor written, no stored
\* strategy is selected, no outcome is recorded in the store, and the run
\* ends at END with a Result, nothing is raised to the caller.
C32_StoreOutageDegrades ==
    /\ current_strategy # "high_confidence_persistent"
    /\ strategy_usage = << >>
    /\ strategy_evolution = << >>
    /\ pc = "done" => result.kind = "returned"
====
